-------------------------- MODULE WorkQueueProofs --------------------------
(***************************************************************************)
(* Proofs about WorkQueue, for every set of items and pods and every bound *)
(* on the faults.                                                          *)
(***************************************************************************)
EXTENDS WorkQueue, TLAPS

(* Every operation preserves the types of all variables.                   *)
LEMMA TypeStep == TypeOK /\ [Next]_vars => TypeOK'
<1> SUFFICES ASSUME TypeOK, [Next]_vars
             PROVE  TypeOK'
  OBVIOUS
<1> USE DEF TypeOK, Location, brokerVars, channelVars, historyVars
<1>1. ASSUME NEW i \in Items, Enqueue(i) \/ EnqueueLost(i)
      PROVE  TypeOK'
  BY <1>1 DEF Enqueue, EnqueueLost
<1>2. ASSUME NEW p \in Pods, NEW i \in Items, Deliver(p, i)
      PROVE  TypeOK'
  <2>1. [pod |-> p, epoch |-> epoch[p], tag |-> tag[p] + 1,
         item |-> i, redelivered |-> redelivered[i]] \in Handler
    BY DEF Handler
  <2> QED
    BY <1>2, <2>1 DEF Deliver
<1>3. ASSUME NEW p \in Pods, NEW i \in Items, DeliverUnparseable(p, i)
      PROVE  TypeOK'
  BY <1>3 DEF DeliverUnparseable
<1>4. ASSUME NEW h \in handlers, NEW to \in {"ready", "acked", "dead"},
             Settle(h, to)
      PROVE  /\ broker' \in [Items -> Location]
             /\ redelivered' \in [Items -> BOOLEAN]
             /\ channel' \in [Pods -> {"open", "lost", "errored"}]
             /\ held' \in [Pods -> Items \cup {None}]
             /\ handlers' \subseteq Handler
             /\ UNCHANGED <<epoch, tag, crashes>>
  <2>1. h.pod \in Pods
    BY DEF Handler
  <2>2. CASE SettleNowhere(h.pod)
    BY <1>4, <2>2 DEF Settle, SettleNowhere
  <2>3. CASE SettleHeld(h.pod, h.tag, to)
    BY <1>4, <2>1, <2>3 DEF Settle, SettleHeld
  <2>4. CASE SettleUnknown(h.pod, h.tag)
    BY <1>4, <2>1, <2>4 DEF Settle, SettleUnknown, ReturnHeld
  <2> QED
    BY <1>4, <2>2, <2>3, <2>4 DEF Settle
<1>5. ASSUME NEW h \in handlers, Succeed(h)
      PROVE  TypeOK'
  <2>1. h.item \in Items
    BY DEF Handler
  <2> QED
    BY <1>4, <1>5, <2>1 DEF Succeed
<1>6. ASSUME NEW h \in handlers, Fail(h)
      PROVE  TypeOK'
  <2>1. h.item \in Items /\ FailureTarget(h) \in {"ready", "dead"}
    BY DEF Handler, FailureTarget
  <2> QED
    BY <1>4, <1>6, <2>1 DEF Fail
<1>7. ASSUME NEW p \in Pods, Crash(p) \/ Drop(p)
      PROVE  TypeOK'
  <2>1. /\ broker' \in [Items -> Location]
        /\ redelivered' \in [Items -> BOOLEAN]
        /\ held' \in [Pods -> Items \cup {None}]
    <3>1. ReturnHeld(p)
      BY <1>7 DEF Crash, Drop
    <3> QED
      BY <3>1 DEF ReturnHeld
  <2>2. CASE Crash(p)
    BY <2>1, <2>2 DEF Crash
  <2>3. CASE Drop(p)
    BY <2>1, <2>3 DEF Drop
  <2> QED
    BY <1>7, <2>2, <2>3
<1>8. ASSUME NEW p \in Pods, Reopen(p)
      PROVE  TypeOK'
  BY <1>8 DEF Reopen
<1>9. CASE UNCHANGED vars
  BY <1>9 DEF vars
<1> QED
  BY <1>1, <1>2, <1>3, <1>5, <1>6, <1>7, <1>8, <1>9
     DEF Next, Produce, Consume, Finish, Fault, Recover

(* The types of all variables are preserved by every operation.            *)
THEOREM TypeCorrect == Spec => []TypeOK
<1>1. Init => TypeOK
  BY DEF Init, TypeOK, Location
<1>2. QED
  BY <1>1, TypeStep, PTL DEF Spec

----------------------------------------------------------------------------
(* Facts about the two ways an item leaves a channel.                      *)

(* Taking back what one channel holds keeps the other holders unique.      *)
LEMMA ReturnHeldOnce ==
  ASSUME TypeOK, HeldOnce, NEW p \in Pods, ReturnHeld(p)
  PROVE  HeldOnce'
<1> USE DEF TypeOK, HeldOnce
<1>1. \A q \in Pods : held'[q] = IF q = p THEN None ELSE held[q]
  BY DEF ReturnHeld
<1>2. ASSUME NEW i \in Items
      PROVE  broker'[i] = IF i = held[p] THEN "ready" ELSE broker[i]
  BY DEF ReturnHeld
<1>3. ASSUME NEW i \in Items
      PROVE  /\ broker'[i] = "unacked" <=> \E q \in Pods : held'[q] = i
             /\ \A q, r \in Pods : held'[q] = i /\ held'[r] = i => q = r
  <2>1. i # None
    BY NoneAssumption
  <2> QED
    BY <1>1, <1>2, <2>1
<1> QED
  BY <1>3

(* So does settling the item a channel holds.                              *)
LEMMA SettleHeldOnce ==
  ASSUME TypeOK, HeldOnce, NEW p \in Pods, NEW t,
         NEW to \in {"ready", "acked", "dead"}, SettleHeld(p, t, to)
  PROVE  HeldOnce'
<1> USE DEF TypeOK, HeldOnce
<1>1. \A q \in Pods : held'[q] = IF q = p THEN None ELSE held[q]
  BY DEF SettleHeld
<1>2. ASSUME NEW i \in Items
      PROVE  broker'[i] = IF i = held[p] THEN to ELSE broker[i]
  BY DEF SettleHeld
<1>3. ASSUME NEW i \in Items
      PROVE  /\ broker'[i] = "unacked" <=> \E q \in Pods : held'[q] = i
             /\ \A q, r \in Pods : held'[q] = i /\ held'[r] = i => q = r
  <2>1. i # None
    BY NoneAssumption
  <2> QED
    BY <1>1, <1>2, <2>1
<1> QED
  BY <1>3

(* What a handler's settlement does to the queue, whatever its verdict.    *)
LEMMA SettleStep ==
  ASSUME TypeOK, HeldOnce, NEW h \in handlers,
         NEW to \in {"ready", "acked", "dead"}, Settle(h, to)
  PROVE  HeldOnce'
<1>1. h.pod \in Pods
  BY DEF TypeOK, Handler
<1>2. CASE SettleNowhere(h.pod)
  BY <1>2 DEF SettleNowhere, HeldOnce
<1>3. CASE SettleHeld(h.pod, h.tag, to)
  BY <1>1, <1>3, SettleHeldOnce
<1>4. CASE SettleUnknown(h.pod, h.tag)
  BY <1>1, <1>4, ReturnHeldOnce DEF SettleUnknown
<1> QED
  BY <1>2, <1>3, <1>4 DEF Settle

(* The places a handler's verdict can send an item to.                     *)
LEMMA FailureTargets ==
  ASSUME NEW h
  PROVE  FailureTarget(h) \in {"ready", "dead"}
BY DEF FailureTarget

(* Every operation keeps each unacknowledged item with exactly one holder. *)
LEMMA HeldOnceStep == TypeOK /\ HeldOnce /\ [Next]_vars => HeldOnce'
<1> SUFFICES ASSUME TypeOK, HeldOnce, [Next]_vars
             PROVE  HeldOnce'
  OBVIOUS
<1> USE DEF brokerVars, channelVars, historyVars
<1>1. ASSUME NEW i \in Items, Enqueue(i) \/ EnqueueLost(i)
      PROVE  HeldOnce'
  BY <1>1 DEF Enqueue, EnqueueLost, HeldOnce, TypeOK
<1>2. ASSUME NEW p \in Pods, NEW i \in Items, Deliver(p, i)
      PROVE  HeldOnce'
  <2>1. \A q \in Pods : held'[q] = IF q = p THEN i ELSE held[q]
    BY <1>2 DEF Deliver, TypeOK
  <2>2. \A j \in Items : broker'[j] = IF j = i THEN "unacked" ELSE broker[j]
    BY <1>2 DEF Deliver, TypeOK
  <2>3. held[p] = None /\ broker[i] = "ready"
    BY <1>2 DEF Deliver, CanDeliver
  <2>4. \A q \in Pods : held[q] # i
    BY <2>3 DEF HeldOnce
  <2> QED
    BY <2>1, <2>2, <2>3, <2>4, NoneAssumption DEF HeldOnce
<1>3. ASSUME NEW p \in Pods, NEW i \in Items, DeliverUnparseable(p, i)
      PROVE  HeldOnce'
  BY <1>3 DEF DeliverUnparseable, CanDeliver, HeldOnce, TypeOK
<1>4. ASSUME NEW h \in handlers, Succeed(h) \/ Fail(h)
      PROVE  HeldOnce'
  BY <1>4, SettleStep, FailureTargets DEF Succeed, Fail
<1>5. ASSUME NEW p \in Pods, Crash(p) \/ Drop(p)
      PROVE  HeldOnce'
  BY <1>5, ReturnHeldOnce DEF Crash, Drop
<1>6. ASSUME NEW p \in Pods, Reopen(p)
      PROVE  HeldOnce'
  BY <1>6 DEF Reopen, HeldOnce
<1>7. CASE UNCHANGED vars
  BY <1>7 DEF vars, HeldOnce
<1> QED
  BY <1>1, <1>2, <1>3, <1>4, <1>5, <1>6, <1>7
     DEF Next, Produce, Consume, Finish, Fault, Recover

----------------------------------------------------------------------------
(* Behaviours in which no connection is lost under a live process.         *)

(* Connections lost are never forgotten.                                   *)
LEMMA NeverDroppedBefore ==
  ASSUME TypeOK, [Next]_vars, NeverDropped'
  PROVE  NeverDropped /\ \A p \in Pods : ~Drop(p)
<1> USE DEF TypeOK, NeverDropped, brokerVars, channelVars, historyVars
<1>1. ASSUME NEW p \in Pods, Drop(p)
      PROVE  FALSE
  BY <1>1 DEF Drop
<1>2. ASSUME UNCHANGED epoch
      PROVE  NeverDropped
  BY <1>2
<1>3. CASE Produce
  BY <1>1, <1>2, <1>3 DEF Produce, Enqueue, EnqueueLost
<1>4. CASE Consume
  BY <1>1, <1>2, <1>4 DEF Consume, Deliver, DeliverUnparseable
<1>5. CASE Finish
  BY <1>1, <1>2, <1>5 DEF Finish, Succeed, Fail, Settle
<1>6. CASE Fault
  BY <1>1, <1>2, <1>6 DEF Fault, Crash
<1>7. CASE Recover
  BY <1>1, <1>2, <1>7 DEF Recover, Reopen
<1>8. CASE UNCHANGED vars
  BY <1>1, <1>2, <1>8 DEF vars
<1> QED
  BY <1>3, <1>4, <1>5, <1>6, <1>7, <1>8 DEF Next

(* There a handler settles the very item it worked on.                     *)
LEMMA SettlesOwnItem ==
  ASSUME TypeOK, HandlersHold, NeverDropped,
         NEW h \in handlers, NEW to \in {"ready", "acked", "dead"},
         Settle(h, to)
  PROVE  /\ h.item \in Items /\ h.pod \in Pods
         /\ held[h.pod] = h.item
         /\ broker' = [broker EXCEPT ![h.item] = to]
         /\ redelivered' =
            [redelivered EXCEPT ![h.item] = IF to = "ready" THEN TRUE ELSE @]
         /\ held' = [held EXCEPT ![h.pod] = None]
         /\ handlers' = handlers \ {h}
         /\ UNCHANGED <<channel, epoch, tag, crashes>>
<1>1. h.item \in Items /\ h.pod \in Pods
  BY DEF TypeOK, Handler
<1>2. /\ channel[h.pod] = "open"
      /\ tag[h.pod] = h.tag
      /\ held[h.pod] = h.item
  BY DEF HandlersHold
<1>3. h.item # None
  BY <1>1, NoneAssumption
<1>4. SettleHeld(h.pod, h.tag, to)
  BY <1>2, <1>3 DEF Settle, SettleNowhere, SettleUnknown
<1> QED
  BY <1>1, <1>2, <1>4 DEF Settle, SettleHeld

(* Two handlers that hold are in different pods and on different items.    *)
LEMMA HandlersDiffer ==
  ASSUME TypeOK, HeldOnce, HandlersHold, NeverDropped,
         NEW g \in handlers, NEW h \in handlers, g.pod = h.pod \/ g.item = h.item
  PROVE  g = h
<1>1. g \in Handler /\ h \in Handler
  BY DEF TypeOK
<1>2. held[g.pod] = g.item /\ held[h.pod] = h.item
  BY DEF HandlersHold
<1>3. g.pod = h.pod /\ g.item = h.item
  BY <1>1, <1>2 DEF HeldOnce, Handler
<1>4. g.epoch = h.epoch /\ g.tag = h.tag /\ g.redelivered = h.redelivered
  BY <1>3 DEF HandlersHold
<1> QED
  BY <1>1, <1>3, <1>4 DEF Handler

(* The item of an unfinished handler is unacknowledged.                    *)
LEMMA HandlersAreUnacked ==
  ASSUME TypeOK, HeldOnce, HandlersHold, NeverDropped, NEW h \in handlers
  PROVE  broker[h.item] = "unacked"
<1>1. h.item \in Items /\ h.pod \in Pods /\ held[h.pod] = h.item
  BY DEF TypeOK, Handler, HandlersHold
<1> QED
  BY <1>1 DEF HeldOnce

(* Every operation keeps unfinished handlers in step with their channels.  *)
LEMMA HandlersHoldStep ==
  TypeOK /\ HeldOnce /\ HandlersHold /\ [Next]_vars => HandlersHold'
<1> SUFFICES ASSUME TypeOK, HeldOnce, HandlersHold, [Next]_vars, NeverDropped',
                    NEW g \in handlers'
             PROVE  /\ channel'[g.pod] = "open"
                    /\ epoch'[g.pod] = g.epoch
                    /\ tag'[g.pod] = g.tag
                    /\ held'[g.pod] = g.item
                    /\ redelivered'[g.item] = g.redelivered
  BY DEF HandlersHold
<1> DEFINE Holds(x) == /\ channel[x.pod] = "open"
                       /\ epoch[x.pod] = x.epoch
                       /\ tag[x.pod] = x.tag
                       /\ held[x.pod] = x.item
                       /\ redelivered[x.item] = x.redelivered
<1>0. NeverDropped /\ \A p \in Pods : ~Drop(p)
  BY NeverDroppedBefore
<1>1. \A h \in handlers : Holds(h) /\ h.pod \in Pods /\ h.item \in Items
  BY <1>0 DEF HandlersHold, TypeOK, Handler
<1>2. CASE Produce
  BY <1>1, <1>2
     DEF Produce, Enqueue, EnqueueLost, channelVars
<1>3. ASSUME NEW p \in Pods, NEW i \in Items, Deliver(p, i)
      PROVE  Holds(g)'
  <2>1. CASE g \in handlers
    <3>1. g.pod # p
      BY <1>1, <1>3, <2>1, NoneAssumption DEF Deliver, CanDeliver
    <3> QED
      BY <1>1, <1>3, <2>1, <3>1 DEF Deliver, TypeOK
  <2>2. CASE g \notin handlers
    <3>1. g = [pod |-> p, epoch |-> epoch[p], tag |-> tag[p] + 1,
               item |-> i, redelivered |-> redelivered[i]]
      BY <1>3, <2>2 DEF Deliver
    <3> QED
      BY <1>3, <3>1 DEF Deliver, CanDeliver, TypeOK
  <2> QED
    BY <2>1, <2>2
<1>4. ASSUME NEW p \in Pods, NEW i \in Items, DeliverUnparseable(p, i)
      PROVE  Holds(g)'
  <2>1. g.pod # p
    BY <1>1, <1>4, NoneAssumption DEF DeliverUnparseable, CanDeliver
  <2> QED
    BY <1>1, <1>4, <2>1 DEF DeliverUnparseable, TypeOK
<1>5. ASSUME NEW h \in handlers, Succeed(h) \/ Fail(h)
      PROVE  Holds(g)'
  <2>1. PICK to \in {"ready", "acked", "dead"} : Settle(h, to)
    BY <1>5, FailureTargets DEF Succeed, Fail
  <2>2. /\ h.item \in Items /\ h.pod \in Pods
        /\ redelivered' =
            [redelivered EXCEPT ![h.item] = IF to = "ready" THEN TRUE ELSE @]
        /\ held' = [held EXCEPT ![h.pod] = None]
        /\ handlers' = handlers \ {h}
        /\ UNCHANGED <<channel, epoch, tag, crashes>>
    BY <1>0, <2>1, SettlesOwnItem
  <2>3. g \in handlers /\ g # h
    BY <2>2
  <2>4. g.pod # h.pod /\ g.item # h.item
    BY <1>0, <2>3, HandlersDiffer
  <2> QED
    BY <1>1, <2>2, <2>3, <2>4 DEF TypeOK
<1>6. ASSUME NEW p \in Pods, Crash(p)
      PROVE  Holds(g)'
  <2>1. g \in handlers /\ g.pod # p
    BY <1>6 DEF Crash
  <2>2. held[p] # g.item
    BY <1>1, <2>1, <1>6 DEF HeldOnce
  <2> QED
    BY <1>1, <1>6, <2>1, <2>2 DEF Crash, ReturnHeld, TypeOK
<1>7. ASSUME NEW p \in Pods, Reopen(p)
      PROVE  Holds(g)'
  <2>1. g \in handlers /\ g.pod # p
    BY <1>1, <1>7 DEF Reopen
  <2> QED
    BY <1>1, <1>7, <2>1 DEF Reopen, TypeOK, brokerVars
<1>8. CASE UNCHANGED vars
  BY <1>1, <1>8 DEF vars, brokerVars, channelVars
<1> QED
  BY <1>0, <1>2, <1>3, <1>4, <1>5, <1>6, <1>7, <1>8
     DEF Next, Consume, Finish, Fault, Recover

(* The flag stays clear until an item is sent.                             *)
LEMMA UnsentIsNewStep ==
  TypeOK /\ HeldOnce /\ UnsentIsNew /\ [Next]_vars => UnsentIsNew'
<1> SUFFICES ASSUME TypeOK, HeldOnce, UnsentIsNew, [Next]_vars,
                    NEW i \in Items, broker'[i] = "unsent"
             PROVE  ~redelivered'[i]
  BY DEF UnsentIsNew
<1>1. CASE Produce
  BY <1>1 DEF Produce, Enqueue, EnqueueLost, TypeOK, UnsentIsNew
<1>2. CASE Consume
  BY <1>2 DEF Consume, Deliver, DeliverUnparseable, TypeOK, UnsentIsNew
<1>3. ASSUME NEW p \in Pods, ReturnHeld(p)
      PROVE  ~redelivered'[i]
  BY <1>3 DEF ReturnHeld, UnsentIsNew
<1>4. ASSUME NEW h \in handlers, NEW to \in {"ready", "acked", "dead"},
             Settle(h, to)
      PROVE  ~redelivered'[i]
  <2>1. h.pod \in Pods
    BY DEF TypeOK, Handler
  <2>2. CASE SettleNowhere(h.pod)
    BY <2>2 DEF SettleNowhere, UnsentIsNew
  <2>3. CASE SettleHeld(h.pod, h.tag, to)
    <3>1. held[h.pod] # i /\ broker[i] = "unsent"
      BY <2>1, <2>3 DEF SettleHeld, TypeOK
    <3> QED
      BY <2>3, <3>1 DEF SettleHeld, TypeOK, UnsentIsNew
  <2>4. CASE SettleUnknown(h.pod, h.tag)
    BY <1>3, <2>1, <2>4 DEF SettleUnknown
  <2> QED
    BY <1>4, <2>2, <2>3, <2>4 DEF Settle
<1>5. CASE Finish
  BY <1>4, <1>5, FailureTargets DEF Finish, Succeed, Fail
<1>6. CASE Fault
  BY <1>3, <1>6 DEF Fault, Crash, Drop
<1>7. CASE Recover
  BY <1>7 DEF Recover, Reopen, brokerVars, UnsentIsNew
<1>8. CASE UNCHANGED vars
  BY <1>8 DEF vars, brokerVars, UnsentIsNew
<1> QED
  BY <1>1, <1>2, <1>5, <1>6, <1>7, <1>8 DEF Next

(* Every operation keeps the count of failures within what is promised.    *)
LEMMA FailuresCountedStep ==
  TypeOK /\ HeldOnce /\ HandlersHold /\ FailuresCounted /\ [Next]_vars
    => FailuresCounted'
<1> SUFFICES ASSUME TypeOK, HeldOnce, HandlersHold, FailuresCounted, [Next]_vars,
                    NeverDropped', NEW j \in Items
             PROVE  /\ ~redelivered'[j] => failures'[j] = 0
                    /\ broker'[j] # "dead" => failures'[j] <= 1
                    /\ failures'[j] <= 2
                    /\ broker'[j] = "dead" =>
                         j \in Unparseable \/ (failures'[j] >= 1 /\ redelivered'[j])
  BY DEF FailuresCounted
<1> DEFINE Counted == /\ ~redelivered[j] => failures[j] = 0
                      /\ broker[j] # "dead" => failures[j] <= 1
                      /\ failures[j] <= 2
                      /\ broker[j] = "dead" =>
                           j \in Unparseable \/ (failures[j] >= 1 /\ redelivered[j])
<1>0. NeverDropped /\ \A p \in Pods : ~Drop(p)
  BY NeverDroppedBefore
<1>1. Counted
  BY <1>0 DEF FailuresCounted
<1>2. CASE Produce
  BY <1>1, <1>2 DEF Produce, Enqueue, EnqueueLost, historyVars, TypeOK
<1>3. ASSUME NEW p \in Pods, NEW i \in Items,
             Deliver(p, i) \/ DeliverUnparseable(p, i)
      PROVE  Counted'
  <2>1. UNCHANGED <<redelivered, failures>>
    BY <1>3 DEF Deliver, DeliverUnparseable, historyVars
  <2>2. broker[i] = "ready"
    BY <1>3 DEF Deliver, DeliverUnparseable, CanDeliver
  <2>3. broker'[j] = broker[j] \/ (j = i /\ broker'[j] \in {"unacked", "dead"})
    BY <1>3 DEF Deliver, DeliverUnparseable, TypeOK
  <2>4. broker'[j] = "dead" => broker[j] = "dead" \/ j \in Unparseable
    BY <1>3 DEF Deliver, DeliverUnparseable, TypeOK
  <2> QED
    BY <1>1, <2>1, <2>2, <2>3, <2>4
<1>4. ASSUME NEW h \in handlers, Succeed(h)
      PROVE  Counted'
  <2>1. /\ h.item \in Items
        /\ broker' = [broker EXCEPT ![h.item] = "acked"]
        /\ redelivered' =
            [redelivered EXCEPT ![h.item] = IF "acked" = "ready" THEN TRUE ELSE @]
    BY <1>0, <1>4, SettlesOwnItem DEF Succeed
  <2>2. \A i \in Items : redelivered'[i] = redelivered[i]
    BY <2>1 DEF TypeOK
  <2>3. failures[j] <= 1 \/ j # h.item
    <3>1. CASE broker[j] = "dead"
      BY <1>4, <1>0, <3>1, HandlersAreUnacked
    <3> QED
      BY <1>1, <3>1
  <2> QED
    BY <1>1, <1>4, <2>1, <2>2, <2>3 DEF Succeed, TypeOK
<1>5. ASSUME NEW h \in handlers, Fail(h)
      PROVE  Counted'
  <2>1. PICK to \in {"ready", "dead"} :
            to = FailureTarget(h) /\ Settle(h, to)
    BY <1>5, FailureTargets DEF Fail
  <2>2. /\ h.item \in Items
        /\ broker' = [broker EXCEPT ![h.item] = to]
        /\ redelivered' =
            [redelivered EXCEPT ![h.item] = IF to = "ready" THEN TRUE ELSE @]
    BY <1>0, <2>1, SettlesOwnItem
  <2>3. failures' = [failures EXCEPT ![h.item] = @ + 1]
    BY <1>5 DEF Fail
  <2>4. redelivered[h.item] = h.redelivered
    BY <1>0 DEF HandlersHold
  <2>5. CASE j # h.item
    BY <1>1, <2>2, <2>3, <2>5 DEF TypeOK
  <2>6. CASE j = h.item
    <3>1. failures[j] <= 1
      BY <1>0, <1>1, <2>6, HandlersAreUnacked
    <3>2. CASE h.redelivered
      <4>1. to = "dead" /\ redelivered[j]
        BY <2>1, <2>4, <2>6, <3>2 DEF FailureTarget
      <4>2. redelivered'[j] /\ broker'[j] = "dead" /\ failures'[j] = failures[j] + 1
        BY <2>2, <2>3, <2>6, <4>1 DEF TypeOK
      <4>3. failures'[j] \in {1, 2}
        BY <3>1, <4>2 DEF TypeOK
      <4> QED
        BY <4>2, <4>3
    <3>3. CASE ~h.redelivered
      <4>1. to = "ready" /\ failures[j] = 0
        BY <1>1, <2>1, <2>4, <2>6, <3>3 DEF FailureTarget
      <4>2. redelivered'[j] /\ broker'[j] = "ready" /\ failures'[j] = 1
        BY <2>2, <2>3, <2>6, <4>1 DEF TypeOK
      <4> QED
        BY <4>2
    <3> QED
      BY <3>2, <3>3
  <2> QED
    BY <2>5, <2>6
<1>6. ASSUME NEW p \in Pods, Crash(p)
      PROVE  Counted'
  <2>1. /\ broker'[j] = IF j = held[p] THEN "ready" ELSE broker[j]
        /\ redelivered'[j] = IF j = held[p] THEN TRUE ELSE redelivered[j]
        /\ failures' = failures
    BY <1>6 DEF Crash, ReturnHeld, historyVars
  <2>2. j = held[p] => broker[j] = "unacked"
    BY DEF HeldOnce
  <2> QED
    BY <1>1, <2>1, <2>2
<1>7. CASE Recover
  BY <1>1, <1>7 DEF Recover, Reopen, brokerVars, historyVars
<1>8. CASE UNCHANGED vars
  BY <1>1, <1>8 DEF vars, brokerVars, historyVars
<1> QED
  BY <1>0, <1>2, <1>3, <1>4, <1>5, <1>6, <1>7, <1>8 DEF Next, Consume, Finish, Fault

(* Every operation acknowledges no item but one whose handler succeeded.   *)
LEMMA AckedWasProcessedStep ==
  TypeOK /\ HeldOnce /\ HandlersHold /\ AckedWasProcessed /\ [Next]_vars
    => AckedWasProcessed'
<1> SUFFICES ASSUME TypeOK, HeldOnce, HandlersHold, AckedWasProcessed,
                    [Next]_vars, NeverDropped',
                    NEW j \in Items, broker'[j] = "acked"
             PROVE  j \in succeeded'
  BY DEF AckedWasProcessed
<1>0. NeverDropped /\ \A p \in Pods : ~Drop(p)
  BY NeverDroppedBefore
<1>1. broker[j] = "acked" => j \in succeeded
  BY <1>0 DEF AckedWasProcessed
<1>2. CASE Produce
  BY <1>1, <1>2 DEF Produce, Enqueue, EnqueueLost, historyVars, TypeOK
<1>3. CASE Consume
  BY <1>1, <1>3
     DEF Consume, Deliver, DeliverUnparseable, historyVars, TypeOK
<1>4. ASSUME NEW h \in handlers, Succeed(h)
      PROVE  j \in succeeded'
  <2>1. broker' = [broker EXCEPT ![h.item] = "acked"]
    BY <1>0, <1>4, SettlesOwnItem DEF Succeed
  <2> QED
    BY <1>1, <1>4, <2>1 DEF Succeed, TypeOK
<1>5. ASSUME NEW h \in handlers, Fail(h)
      PROVE  j \in succeeded'
  <2>1. PICK to \in {"ready", "dead"} : Settle(h, to)
    BY <1>5, FailureTargets DEF Fail
  <2>2. broker' = [broker EXCEPT ![h.item] = to]
    BY <1>0, <2>1, SettlesOwnItem
  <2> QED
    BY <1>1, <1>5, <2>2 DEF Fail, TypeOK
<1>6. ASSUME NEW p \in Pods, Crash(p)
      PROVE  j \in succeeded'
  BY <1>1, <1>6 DEF Crash, ReturnHeld, historyVars
<1>7. CASE Recover
  BY <1>1, <1>7 DEF Recover, Reopen, brokerVars, historyVars
<1>8. CASE UNCHANGED vars
  BY <1>1, <1>8 DEF vars, brokerVars, historyVars
<1> QED
  BY <1>0, <1>2, <1>3, <1>4, <1>5, <1>6, <1>7, <1>8 DEF Next, Finish, Fault

----------------------------------------------------------------------------
(* The safety properties.                                                  *)

(* The inductive invariant holds in every behaviour.                       *)
THEOREM Invariance == Spec => []IInv
<1>1. Init => IInv
  BY NoneAssumption
     DEF Init, IInv, TypeOK, Location, HeldOnce, HandlersHold, FailuresCounted,
         AckedWasProcessed, UnsentIsNew
<1>2. IInv /\ [Next]_vars => IInv'
  BY TypeStep, HeldOnceStep, HandlersHoldStep, FailuresCountedStep,
     UnsentIsNewStep, AckedWasProcessedStep DEF IInv
<1>3. QED
  BY <1>1, <1>2, PTL DEF Spec

(* Every item is unacknowledged at one consumer at most, and at one when   *)
(* the broker counts it as such.                                           *)
THEOREM HeldOnceAlways == Spec => []HeldOnce
<1>1. IInv => HeldOnce
  BY DEF IInv
<1>2. QED
  BY <1>1, Invariance, PTL

(* No two handlers work on one item, short of a lost connection.           *)
THEOREM OneHandlerAlways == Spec => []OneHandlerPerItem
<1>1. IInv => OneHandlerPerItem
  <2> SUFFICES ASSUME IInv, NeverDropped, NEW h \in handlers
               PROVE  /\ broker[h.item] = "unacked"
                      /\ \A g \in handlers : g.item = h.item => g = h
    BY DEF OneHandlerPerItem
  <2>1. broker[h.item] = "unacked"
    BY HandlersAreUnacked DEF IInv
  <2>2. ASSUME NEW g \in handlers, g.item = h.item
        PROVE  g = h
    BY <2>2, HandlersDiffer DEF IInv
  <2> QED
    BY <2>1, <2>2
<1>2. QED
  BY <1>1, Invariance, PTL

(* Handlers fail at most twice for an item, and every dead letter has a    *)
(* reason, short of a lost connection.                                     *)
THEOREM RetriedOnceAlways == Spec => []RetriedOnce
<1>1. IInv => RetriedOnce
  <2> SUFFICES ASSUME IInv, NeverDropped, NEW i \in Items
               PROVE  /\ failures[i] <= 2
                      /\ failures[i] = 2 => broker[i] = "dead"
                      /\ broker[i] = "dead" =>
                             i \in Unparseable \/ (failures[i] >= 1 /\ redelivered[i])
    BY DEF RetriedOnce
  <2>1. broker[i] # "dead" => failures[i] <= 1
    BY DEF IInv, FailuresCounted
  <2> QED
    BY <2>1 DEF IInv, FailuresCounted
<1>2. QED
  BY <1>1, Invariance, PTL

(* Only items whose handler succeeded are acknowledged, short of a lost    *)
(* connection.                                                             *)
THEOREM AckedWasProcessedAlways == Spec => []AckedWasProcessed
<1>1. IInv => AckedWasProcessed
  BY DEF IInv
<1>2. QED
  BY <1>1, Invariance, PTL

(* No step brings an acknowledged or dead lettered item back, even after   *)
(* connections were lost and late acknowledgements arrived.                *)
THEOREM SettledForeverAlways == Spec => SettledForever
<1> DEFINE Keeps == \A i \in Items : broker[i] \in Settled => broker'[i] = broker[i]
<1>1. TypeOK /\ HeldOnce /\ [Next]_vars => Keeps
  <2> SUFFICES ASSUME TypeOK, HeldOnce, [Next]_vars,
                      NEW i \in Items, broker[i] \in Settled
               PROVE  broker'[i] = broker[i]
    OBVIOUS
  <2>1. broker[i] \notin {"unsent", "ready", "unacked"}
    BY DEF Settled
  <2>2. \A p \in Pods : held[p] # i
    BY <2>1 DEF HeldOnce
  <2>3. CASE Produce
    BY <2>1, <2>3 DEF Produce, Enqueue, EnqueueLost, TypeOK
  <2>4. CASE Consume
    BY <2>1, <2>4 DEF Consume, Deliver, DeliverUnparseable, CanDeliver, TypeOK
  <2>5. ASSUME NEW h \in handlers, NEW to, Settle(h, to)
        PROVE  broker'[i] = broker[i]
    <3>1. h.pod \in Pods
      BY DEF TypeOK, Handler
    <3> QED
      BY <2>2, <2>5, <3>1
         DEF Settle, SettleNowhere, SettleHeld, SettleUnknown, ReturnHeld, TypeOK
  <2>6. CASE Finish
    BY <2>5, <2>6 DEF Finish, Succeed, Fail
  <2>7. CASE Fault
    BY <2>2, <2>7 DEF Fault, Crash, Drop, ReturnHeld
  <2>8. CASE Recover
    BY <2>8 DEF Recover, Reopen, brokerVars
  <2>9. CASE UNCHANGED vars
    BY <2>9 DEF vars, brokerVars
  <2> QED
    BY <2>3, <2>4, <2>6, <2>7, <2>8, <2>9 DEF Next
<1>2. IInv => TypeOK /\ HeldOnce
  BY DEF IInv
<1>3. Spec => [][Keeps]_vars
  BY <1>1, <1>2, Invariance, PTL DEF Spec
<1>4. QED
  BY <1>3 DEF SettledForever

----------------------------------------------------------------------------
(* The queue implements AtLeastOnce while processes do not outlive their   *)
(* connections.                                                            *)

(* What an item is to the user of the queue.                               *)
LEMMA AbstractItemOf ==
  ASSUME TypeOK, NEW i \in Items
  PROVE  /\ broker[i] \in {"ready", "unacked"} /\ redelivered[i]
               => AbstractItem[i] = "retried"
         /\ broker[i] \in {"ready", "unacked"} /\ ~redelivered[i]
               => AbstractItem[i] = "accepted"
         /\ broker[i] \notin {"ready", "unacked"} => AbstractItem[i] = broker[i]
BY DEF AbstractItem

(* A step that changes one item of the queue changes that item only.       *)
LEMMA AbstractUpdate ==
  ASSUME TypeOK, TypeOK', NEW i \in Items,
         \A j \in Items \ {i} :
             broker'[j] = broker[j] /\ redelivered'[j] = redelivered[j]
  PROVE  AbstractItem' = [AbstractItem EXCEPT ![i] = AbstractItem'[i]]
BY DEF AbstractItem

(* A step that changes neither where the items are nor their flags is      *)
(* invisible.                                                              *)
LEMMA AbstractStutter ==
  ASSUME UNCHANGED <<broker, redelivered>>
  PROVE  AbstractItem' = AbstractItem
BY DEF AbstractItem

(* Without a bound on lost connections above zero, none is lost.           *)
LEMMA NeverDroppedStep ==
  ASSUME MaxDrops = 0
  PROVE  TypeOK /\ NeverDropped /\ [Next]_vars => NeverDropped'
<1> SUFFICES ASSUME TypeOK, NeverDropped, [Next]_vars
             PROVE  NeverDropped'
  OBVIOUS
<1>1. UNCHANGED epoch
  <2>1. ASSUME NEW p \in Pods, Drop(p)
        PROVE  FALSE
    BY <2>1 DEF Drop, NeverDropped, TypeOK
  <2> QED
    BY <2>1 DEF Next, Produce, Enqueue, EnqueueLost, Consume, Deliver,
         DeliverUnparseable, Finish, Succeed, Fail, Settle, Fault, Crash, Recover,
         Reopen, vars, channelVars
<1> QED
  BY <1>1 DEF NeverDropped

(* Every step of the queue is a step of the promise, or invisible to it.   *)
LEMMA RefinementStep ==
  ASSUME IInv, IInv', NeverDropped, NeverDropped', [Next]_vars
  PROVE  [Abstract!Next]_(Abstract!avars)
<1> USE DEF Abstract!Next, Abstract!avars
<1>0. TypeOK /\ TypeOK' /\ \A p \in Pods : ~Drop(p)
  BY NeverDroppedBefore DEF IInv
<1>1. ASSUME NEW i \in Items, Enqueue(i) \/ EnqueueLost(i)
      PROVE  Abstract!Accept(i)
  <2>1. AbstractItem[i] = "unsent"
    BY <1>0, <1>1, AbstractItemOf DEF Enqueue, EnqueueLost
  <2>2. AbstractItem' = [AbstractItem EXCEPT ![i] = AbstractItem'[i]]
    BY <1>0, <1>1, AbstractUpdate DEF Enqueue, EnqueueLost, TypeOK
  <2>3. broker'[i] \in {"ready", "lost"}
    BY <1>0, <1>1 DEF Enqueue, EnqueueLost, TypeOK
  <2>4. ~redelivered[i] /\ UNCHANGED <<redelivered, succeeded, failures>>
    BY <1>1 DEF Enqueue, EnqueueLost, IInv, UnsentIsNew, historyVars
  <2>5. AbstractItem'[i] \in {"accepted", "lost"}
    BY <1>0, <2>3, <2>4 DEF AbstractItem
  <2> QED
    BY <2>1, <2>2, <2>4, <2>5 DEF Abstract!Accept
<1>2. ASSUME NEW p \in Pods, NEW i \in Items, Deliver(p, i)
      PROVE  UNCHANGED <<AbstractItem, succeeded, failures>>
  <2>1. UNCHANGED <<redelivered, succeeded, failures>>
    BY <1>2 DEF Deliver, historyVars
  <2>2. /\ broker[i] = "ready" /\ broker'[i] = "unacked"
        /\ \A j \in Items \ {i} : broker'[j] = broker[j]
    BY <1>0, <1>2 DEF Deliver, CanDeliver, TypeOK
  <2>3. AbstractItem' = AbstractItem
    BY <2>1, <2>2 DEF AbstractItem
  <2> QED
    BY <2>1, <2>3
<1>3. ASSUME NEW p \in Pods, NEW i \in Items, DeliverUnparseable(p, i)
      PROVE  Abstract!Discard(i)
  <2>1. UNCHANGED <<redelivered, succeeded, failures>> /\ i \in Unparseable
    BY <1>3 DEF DeliverUnparseable, historyVars
  <2>2. /\ broker[i] = "ready" /\ broker'[i] = "dead"
        /\ \A j \in Items \ {i} : broker'[j] = broker[j]
    BY <1>0, <1>3 DEF DeliverUnparseable, CanDeliver, TypeOK
  <2>3. AbstractItem[i] \in {"accepted", "retried"} /\ AbstractItem'[i] = "dead"
    BY <1>0, <2>2 DEF AbstractItem
  <2>4. AbstractItem' = [AbstractItem EXCEPT ![i] = AbstractItem'[i]]
    BY <1>0, <2>1, <2>2, AbstractUpdate
  <2> QED
    BY <2>1, <2>3, <2>4 DEF Abstract!Discard, Abstract!Accepted
<1>4. ASSUME NEW h \in handlers, NEW to \in {"ready", "acked", "dead"},
             Settle(h, to)
      PROVE  /\ h.item \in Items
             /\ redelivered[h.item] = h.redelivered
             /\ AbstractItem[h.item] = IF h.redelivered THEN "retried" ELSE "accepted"
             /\ AbstractItem' = [AbstractItem EXCEPT ![h.item] =
                                   IF to = "ready" THEN "retried" ELSE to]
  <2>1. /\ h.item \in Items
        /\ broker' = [broker EXCEPT ![h.item] = to]
        /\ redelivered' =
            [redelivered EXCEPT ![h.item] = IF to = "ready" THEN TRUE ELSE @]
    BY <1>0, <1>4, SettlesOwnItem DEF IInv
  <2>2. redelivered[h.item] = h.redelivered /\ broker[h.item] = "unacked"
    BY HandlersAreUnacked DEF HandlersHold, IInv
  <2>3. AbstractItem[h.item] = IF h.redelivered THEN "retried" ELSE "accepted"
    BY <2>1, <2>2 DEF AbstractItem
  <2>4. \A j \in Items \ {h.item} :
            broker'[j] = broker[j] /\ redelivered'[j] = redelivered[j]
    BY <1>0, <2>1 DEF TypeOK
  <2>5. broker'[h.item] = to /\ (to = "ready" => redelivered'[h.item])
    BY <1>0, <2>1 DEF TypeOK
  <2>6. AbstractItem'[h.item] = IF to = "ready" THEN "retried" ELSE to
    BY <2>1, <2>5 DEF AbstractItem
  <2>7. AbstractItem' = [AbstractItem EXCEPT ![h.item] = AbstractItem'[h.item]]
    BY <1>0, <2>1, <2>4, AbstractUpdate
  <2> QED
    BY <2>1, <2>2, <2>3, <2>6, <2>7
<1>5. ASSUME NEW h \in handlers, Succeed(h)
      PROVE  h.item \in Items /\ Abstract!Complete(h.item)
  <2>1. Settle(h, "acked") /\ succeeded' = succeeded \cup {h.item}
        /\ UNCHANGED failures
    BY <1>5 DEF Succeed
  <2> QED
    BY <1>4, <2>1 DEF Abstract!Complete, Abstract!Accepted
<1>6. ASSUME NEW h \in handlers, Fail(h)
      PROVE  h.item \in Items /\ (Abstract!Retry(h.item) \/ Abstract!GiveUp(h.item))
  <2>1. /\ failures' = [failures EXCEPT ![h.item] = @ + 1]
        /\ UNCHANGED succeeded
    BY <1>6 DEF Fail
  <2>2. CASE h.redelivered
    <3>1. Settle(h, "dead")
      BY <1>6, <2>2 DEF Fail, FailureTarget
    <3> QED
      BY <1>4, <2>1, <2>2, <3>1 DEF Abstract!GiveUp
  <2>3. CASE ~h.redelivered
    <3>1. Settle(h, "ready")
      BY <1>6, <2>3 DEF Fail, FailureTarget
    <3> QED
      BY <1>4, <2>1, <2>3, <3>1 DEF Abstract!Retry
  <2> QED
    BY <2>2, <2>3
<1>7. ASSUME NEW p \in Pods, Crash(p)
      PROVE  \/ UNCHANGED <<AbstractItem, succeeded, failures>>
             \/ \E i \in Items : Abstract!Interrupt(i)
  <2>1. ReturnHeld(p) /\ UNCHANGED <<succeeded, failures>>
    BY <1>7 DEF Crash, historyVars
  <2>2. \A j \in Items :
          /\ broker'[j] = IF j = held[p] THEN "ready" ELSE broker[j]
          /\ redelivered'[j] = IF j = held[p] THEN TRUE ELSE redelivered[j]
    BY <2>1 DEF ReturnHeld
  <2>3. CASE held[p] = None
    <3>1. UNCHANGED AbstractItem
      BY <2>2, <2>3, NoneAssumption DEF AbstractItem
    <3> QED
      BY <2>1, <3>1
  <2>4. CASE held[p] # None
    <3> DEFINE i == held[p]
    <3>1. i \in Items /\ broker[i] = "unacked"
      BY <1>0, <2>4 DEF TypeOK, IInv, HeldOnce
    <3>2. AbstractItem'[i] = "retried"
      BY <2>2, <3>1 DEF AbstractItem
    <3>3. AbstractItem' = [AbstractItem EXCEPT ![i] = AbstractItem'[i]]
      BY <1>0, <2>2, <3>1, AbstractUpdate
    <3>4. CASE redelivered[i]
      <4>1. AbstractItem[i] = "retried"
        BY <3>1, <3>4 DEF AbstractItem
      <4>2. AbstractItem' = AbstractItem
        BY <3>2, <3>3, <4>1 DEF AbstractItem
      <4> QED
        BY <2>1, <4>2
    <3>5. CASE ~redelivered[i]
      <4>1. AbstractItem[i] = "accepted"
        BY <3>1, <3>5 DEF AbstractItem
      <4> QED
        BY <2>1, <3>1, <3>2, <3>3, <4>1 DEF Abstract!Interrupt
    <3> QED
      BY <3>4, <3>5
  <2> QED
    BY <2>3, <2>4
<1>8. ASSUME Recover \/ UNCHANGED vars
      PROVE  UNCHANGED <<AbstractItem, succeeded, failures>>
  BY <1>8, AbstractStutter DEF Recover, Reopen, vars, brokerVars, historyVars
<1> QED
  BY <1>0, <1>1, <1>2, <1>3, <1>5, <1>6, <1>7, <1>8
     DEF Next, Produce, Consume, Finish, Fault

(* When processes do not outlive their connections, the queue is what its  *)
(* users take it for: every item it accepts leaves it by the success of    *)
(* its own handler, or by a failure after the one retry.                   *)
THEOREM QueueImplementsAtLeastOnce ==
  ASSUME MaxDrops = 0
  PROVE  Spec => ImplementsAtLeastOnce
<1>1. Init => Abstract!Init
  BY DEF Init, Abstract!Init, AbstractItem
<1>2. Init => NeverDropped
  BY DEF Init, NeverDropped
<1>3. IInv => TypeOK
  BY DEF IInv
<1>4. Spec => []NeverDropped
  BY <1>2, <1>3, NeverDroppedStep, Invariance, PTL DEF Spec
<1>5. QED
  BY <1>1, <1>4, RefinementStep, Invariance, PTL
     DEF Spec, ImplementsAtLeastOnce, Abstract!Spec
=============================================================================
