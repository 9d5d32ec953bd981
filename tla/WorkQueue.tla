----------------------------- MODULE WorkQueue -----------------------------
(***************************************************************************)
(* The durable work queue every ADSP service takes its background work     *)
(* from: AmqpWorkQueueService of libs/core-common, used over one quorum    *)
(* queue by the pods of a service, together with the part of the RabbitMQ  *)
(* broker and of amqp-connection-manager that the class relies on.         *)
(*                                                                         *)
(* A pod consumes with a prefetch of one.  Every delivery starts a         *)
(* handler, which runs asynchronously and ends by calling done() or        *)
(* done(err) once.  The acknowledgement is sent with the delivery tag of   *)
(* the message over whatever channel the channel wrapper has open at that  *)
(* moment: the class keeps the wrapper, not the channel, so a handler that *)
(* outlives its channel settles on another one.                            *)
(***************************************************************************)
EXTENDS Integers, FiniteSets

CONSTANTS
    Items,        \* messages that may be put on the queue
    Pods,         \* running instances of the service that owns the queue
    None,         \* no item
    Unparseable,  \* items whose content convertMessage cannot parse
    MaxCrashes,   \* bound: crashes of pods over a behaviour
    MaxDrops      \* bound: connections a pod loses while its process lives

ASSUME NoneAssumption == None \notin Items
ASSUME UnparseableAssumption == Unparseable \subseteq Items
ASSUME BoundsAssumption == MaxCrashes \in Nat /\ MaxDrops \in Nat

VARIABLES
    broker,       \* where each item is
    redelivered,  \* the broker's redelivered flag of each item
    channel,      \* the state of each pod's channel
    epoch,        \* connections each pod has lost with its process alive
    tag,          \* delivery tag of the last delivery on each pod's channel
    held,         \* the unacknowledged item on each pod's channel
    handlers,     \* handlers that have not called done yet
    crashes,      \* crashes so far
    succeeded,    \* history: items a handler has called done() for
    failures      \* history: done(err) calls for each item

brokerVars  == <<broker, redelivered>>
channelVars == <<channel, epoch, tag, held>>
historyVars == <<succeeded, failures>>
vars == <<brokerVars, channelVars, handlers, crashes, historyVars>>

Location == {"unsent", "lost", "ready", "unacked", "acked", "dead"}

Settled == {"acked", "dead"}

(* A handler knows the pod it runs in, the channel (epoch) and the delivery *)
(* tag its message came with, the item, and whether it was a redelivery.    *)
Handler == [pod: Pods, epoch: Nat, tag: Nat, item: Items, redelivered: BOOLEAN]

TypeOK ==
    /\ broker \in [Items -> Location]
    /\ redelivered \in [Items -> BOOLEAN]
    /\ channel \in [Pods -> {"open", "lost", "errored"}]
    /\ epoch \in [Pods -> Nat]
    /\ tag \in [Pods -> Nat]
    /\ held \in [Pods -> Items \cup {None}]
    /\ handlers \subseteq Handler
    /\ crashes \in Nat
    /\ succeeded \subseteq Items
    /\ failures \in [Items -> Nat]

Init ==
    /\ broker = [i \in Items |-> "unsent"]
    /\ redelivered = [i \in Items |-> FALSE]
    /\ channel = [p \in Pods |-> "open"]
    /\ epoch = [p \in Pods |-> 0]
    /\ tag = [p \in Pods |-> 0]
    /\ held = [p \in Pods |-> None]
    /\ handlers = {}
    /\ crashes = 0
    /\ succeeded = {}
    /\ failures = [i \in Items |-> 0]

----------------------------------------------------------------------------
(* Producers.                                                              *)

(* The broker confirms the item.                                           *)
Enqueue(i) ==
    /\ broker[i] = "unsent"
    /\ broker' = [broker EXCEPT ![i] = "ready"]
    /\ UNCHANGED <<redelivered, channelVars, handlers, crashes, historyVars>>

(* The send fails or the broker refuses it.  enqueue() logs that and       *)
(* resolves as in the other case: the caller cannot tell.                  *)
EnqueueLost(i) ==
    /\ broker[i] = "unsent"
    /\ broker' = [broker EXCEPT ![i] = "lost"]
    /\ UNCHANGED <<redelivered, channelVars, handlers, crashes, historyVars>>

----------------------------------------------------------------------------
(* Deliveries.                                                             *)

(* Mutant: the consumer is registered without its prefetch of one.         *)
CanDeliverNoPrefetch(p, i) ==
    /\ channel[p] = "open"
    /\ broker[i] = "ready"

(* The broker can deliver an item to a pod: a prefetch of one leaves room. *)
CanDeliver(p, i) ==
    /\ channel[p] = "open"
    /\ held[p] = None
    /\ broker[i] = "ready"

(* Mutant: the callback ignores a message without settling it.             *)
DeliverIgnored(p, i) ==
    /\ CanDeliver(p, i)
    /\ i \notin Unparseable
    /\ broker' = [broker EXCEPT ![i] = "unacked"]
    /\ held' = [held EXCEPT ![p] = i]
    /\ tag' = [tag EXCEPT ![p] = @ + 1]
    /\ UNCHANGED <<redelivered, channel, epoch, handlers, crashes, historyVars>>

(* The consumer callback converts the message and hands it to a handler.   *)
Deliver(p, i) ==
    /\ CanDeliver(p, i)
    /\ i \notin Unparseable
    /\ broker' = [broker EXCEPT ![i] = "unacked"]
    /\ held' = [held EXCEPT ![p] = i]
    /\ tag' = [tag EXCEPT ![p] = @ + 1]
    /\ handlers' = handlers \cup
            {[pod |-> p, epoch |-> epoch[p], tag |-> tag[p] + 1,
              item |-> i, redelivered |-> redelivered[i]]}
    /\ UNCHANGED <<redelivered, channel, epoch, crashes, historyVars>>

(* convertMessage throws: the callback's catch dead letters the message at *)
(* once, without a handler and without a retry.                            *)
DeliverUnparseable(p, i) ==
    /\ CanDeliver(p, i)
    /\ i \in Unparseable
    /\ broker' = [broker EXCEPT ![i] = "dead"]
    /\ tag' = [tag EXCEPT ![p] = @ + 1]
    /\ UNCHANGED <<redelivered, channel, epoch, held, handlers, crashes,
                   historyVars>>

----------------------------------------------------------------------------
(* Settlement: channel.ack(msg) and channel.nack(msg, false, requeue) on   *)
(* the channel wrapper, where `to' is the place the item goes to.          *)

(* The broker takes back the unacknowledged item of a channel that closes. *)
ReturnHeld(p) ==
    /\ broker' = [i \in Items |-> IF i = held[p] THEN "ready" ELSE broker[i]]
    /\ redelivered' =
           [i \in Items |-> IF i = held[p] THEN TRUE ELSE redelivered[i]]
    /\ held' = [held EXCEPT ![p] = None]

(* No channel is open: the wrapper drops the call.                         *)
SettleNowhere(p) ==
    /\ channel[p] # "open"
    /\ UNCHANGED <<broker, redelivered, channel, held>>

(* The tag is that of the unacknowledged delivery of the open channel:     *)
(* the broker settles that delivery, whichever item it carries.            *)
SettleHeld(p, t, to) ==
    /\ channel[p] = "open"
    /\ held[p] # None
    /\ tag[p] = t
    /\ broker' = [broker EXCEPT ![held[p]] = to]
    /\ redelivered' =
           [redelivered EXCEPT ![held[p]] = IF to = "ready" THEN TRUE ELSE @]
    /\ held' = [held EXCEPT ![p] = None]
    /\ UNCHANGED channel

(* The tag is unknown on the open channel: the broker closes the channel.  *)
SettleUnknown(p, t) ==
    /\ channel[p] = "open"
    /\ held[p] = None \/ tag[p] # t
    /\ channel' = [channel EXCEPT ![p] = "errored"]
    /\ ReturnHeld(p)

(* Mutant: the handler goes on after done and may call it again.           *)
SettleAndGoOn(h, to) ==
    /\ \/ SettleNowhere(h.pod)
       \/ SettleHeld(h.pod, h.tag, to)
       \/ SettleUnknown(h.pod, h.tag)
    /\ UNCHANGED <<handlers, epoch, tag, crashes>>

(* Mutant: a retry publishes the item again instead of requeueing the      *)
(* delivery, so that it depends on no channel.                             *)
SettleByItem(h, to) ==
    /\ broker' = [broker EXCEPT ![h.item] = to]
    /\ redelivered' = [redelivered EXCEPT ![h.item] = @ \/ to = "ready"]
    /\ held' = [p \in Pods |-> IF held[p] = h.item THEN None ELSE held[p]]
    /\ handlers' = handlers \ {h}
    /\ UNCHANGED <<channel, epoch, tag, crashes>>

Settle(h, to) ==
    /\ \/ SettleNowhere(h.pod)
       \/ SettleHeld(h.pod, h.tag, to)
       \/ SettleUnknown(h.pod, h.tag)
    /\ handlers' = handlers \ {h}
    /\ UNCHANGED <<epoch, tag, crashes>>

(* Mutants of FailureTarget: no queue is bound to the dead letter          *)
(* exchange; every failure is requeued; the condition is inverted.         *)
FailureTargetUnbound(h) == IF h.redelivered THEN "discarded" ELSE "ready"
FailureTargetRequeue(h) == "ready"
FailureTargetInverted(h) == IF h.redelivered THEN "ready" ELSE "dead"

(* A message is requeued on failure unless it was redelivered.             *)
FailureTarget(h) == IF h.redelivered THEN "dead" ELSE "ready"

(* The handler calls done().                                               *)
Succeed(h) ==
    /\ Settle(h, "acked")
    /\ succeeded' = succeeded \cup {h.item}
    /\ UNCHANGED failures

(* Mutant: the error is not passed on to done.                             *)
FailAcks(h) ==
    /\ Settle(h, "acked")
    /\ failures' = [failures EXCEPT ![h.item] = @ + 1]
    /\ UNCHANGED succeeded

(* The handler calls done(err).                                            *)
Fail(h) ==
    /\ Settle(h, FailureTarget(h))
    /\ failures' = [failures EXCEPT ![h.item] = @ + 1]
    /\ UNCHANGED succeeded

----------------------------------------------------------------------------
(* Faults of the environment and recovery from them.                       *)

(* The pod's process dies: its handlers end without calling done.          *)
Crash(p) ==
    /\ crashes < MaxCrashes
    /\ crashes' = crashes + 1
    /\ channel' = [channel EXCEPT ![p] = "lost"]
    /\ ReturnHeld(p)
    /\ handlers' = {h \in handlers : h.pod # p}
    /\ UNCHANGED <<epoch, tag, historyVars>>

(* The connection is lost and the process lives: its handlers go on.       *)
Drop(p) ==
    /\ channel[p] # "lost"
    /\ epoch[p] < MaxDrops
    /\ epoch' = [epoch EXCEPT ![p] = @ + 1]
    /\ channel' = [channel EXCEPT ![p] = "lost"]
    /\ ReturnHeld(p)
    /\ UNCHANGED <<tag, handlers, crashes, historyVars>>

(* The connection manager reconnects, or the restarted pod connects: a new *)
(* channel is set up and consumed from, and its tags start over.           *)
Reopen(p) ==
    /\ channel[p] = "lost"
    /\ channel' = [channel EXCEPT ![p] = "open"]
    /\ tag' = [tag EXCEPT ![p] = 0]
    /\ UNCHANGED <<brokerVars, epoch, held, handlers, crashes, historyVars>>

Produce == \E i \in Items : Enqueue(i) \/ EnqueueLost(i)

Consume == \E p \in Pods, i \in Items : Deliver(p, i) \/ DeliverUnparseable(p, i)

Finish == \E h \in handlers : Succeed(h) \/ Fail(h)

Fault == \E p \in Pods : Crash(p) \/ Drop(p)

Recover == \E p \in Pods : Reopen(p)

Next == Produce \/ Consume \/ Finish \/ Fault \/ Recover

Spec == Init /\ [][Next]_vars

(* The broker delivers what it can, a handler ends and calls done, and a   *)
(* lost connection is made again.  Nothing obliges a producer to send, nor *)
(* the environment to fail.                                                *)
Fairness == WF_vars(Consume) /\ WF_vars(Finish) /\ WF_vars(Recover)

FairSpec == Spec /\ Fairness

----------------------------------------------------------------------------
(* Properties.                                                             *)

(* No process has lost its connection and lived on so far.                 *)
NeverDropped == \A p \in Pods : epoch[p] = 0

(* An item is unacknowledged exactly when one channel, and only one, holds *)
(* it, whatever crashes, reconnections and late acknowledgements happened: *)
(* no item is stuck at the broker, and none is out to two consumers.       *)
HeldOnce ==
    \A i \in Items :
        /\ broker[i] = "unacked" <=> \E p \in Pods : held[p] = i
        /\ \A p, q \in Pods : held[p] = i /\ held[q] = i => p = q

(* The broker redelivers a message with an unfinished handler only after a *)
(* connection was lost under a live process: short of that, no two         *)
(* handlers work on one item, and none on an item that is back on the      *)
(* queue, acknowledged or dead lettered.                                   *)
OneHandlerPerItem ==
    NeverDropped =>
        \A h \in handlers :
            /\ broker[h.item] = "unacked"
            /\ \A g \in handlers : g.item = h.item => g = h

(* done(err) requeues a message once and dead letters it after that        *)
(* (work.ts, requeueOnFail): handlers fail at most twice for an item, and  *)
(* after the second time it is on the dead letter queue.  A dead letter    *)
(* either could not be parsed or had a failed handler on a redelivery.     *)
RetriedOnce ==
    NeverDropped =>
        \A i \in Items :
            /\ failures[i] <= 2
            /\ failures[i] = 2 => broker[i] = "dead"
            /\ broker[i] = "dead" =>
                   i \in Unparseable \/ (failures[i] >= 1 /\ redelivered[i])

(* The broker drops an item as acknowledged only if a handler has called   *)
(* done() for that very item.                                              *)
AckedWasProcessed ==
    NeverDropped => \A i \in Items : broker[i] = "acked" => i \in succeeded

(* Whatever late acknowledgements arrive, an item that was acknowledged or *)
(* dead lettered never comes back to the queue.                            *)
SettledForever ==
    [][\A i \in Items : broker[i] \in Settled => broker'[i] = broker[i]]_vars

(* A redelivered message whose processing fails goes to dead letter: the   *)
(* comment at work.ts:89 and the log entry at work.ts:98-101.               *)
RedeliveredFailureDeadLetters ==
    [][\A h \in handlers :
          h.redelivered /\ Fail(h) => broker'[h.item] = "dead"]_vars

(* Handed to the service, the queue is an at-least-once queue: ready and   *)
(* unacknowledged items are those it has accepted (retried, once the       *)
(* broker has set their redelivered flag), and an item leaves the queue    *)
(* only by the outcome of its own handler.  This holds as long as no       *)
(* connection is lost under a live process (MaxDrops = 0).                 *)
AbstractItem ==
    [i \in Items |->
        IF broker[i] \in {"ready", "unacked"}
        THEN IF redelivered[i] THEN "retried" ELSE "accepted"
        ELSE broker[i]]

Abstract == INSTANCE AtLeastOnce WITH item <- AbstractItem

ImplementsAtLeastOnce == Abstract!Spec

(* Every item the broker took is in the end acknowledged or dead lettered, *)
(* when crashes end, connections are not lost under live processes and     *)
(* every handler calls done.                                               *)
AcceptedIsSettled ==
    \A i \in Items : broker[i] = "ready" ~> broker[i] \in Settled

----------------------------------------------------------------------------
(* The inductive invariant behind the safety properties.                   *)

(* Short of a lost connection, an unfinished handler works on the item its *)
(* pod's open channel holds, under the tag the handler will settle with.   *)
HandlersHold ==
    NeverDropped =>
        \A h \in handlers :
            /\ channel[h.pod] = "open"
            /\ epoch[h.pod] = h.epoch
            /\ tag[h.pod] = h.tag
            /\ held[h.pod] = h.item
            /\ redelivered[h.item] = h.redelivered

(* An item that was never redelivered has no failure behind it, and one    *)
(* that is not dead lettered has at most one.                              *)
FailuresCounted ==
    NeverDropped =>
        \A i \in Items :
            /\ ~redelivered[i] => failures[i] = 0
            /\ broker[i] # "dead" => failures[i] <= 1
            /\ failures[i] <= 2
            /\ broker[i] = "dead" =>
                   i \in Unparseable \/ (failures[i] >= 1 /\ redelivered[i])

(* Only deliveries set the redelivered flag.                               *)
UnsentIsNew == \A i \in Items : broker[i] = "unsent" => ~redelivered[i]

IInv ==
    /\ TypeOK
    /\ UnsentIsNew
    /\ HeldOnce
    /\ HandlersHold
    /\ FailuresCounted
    /\ AckedWasProcessed
=============================================================================
