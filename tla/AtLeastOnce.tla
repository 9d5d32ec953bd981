---------------------------- MODULE AtLeastOnce ----------------------------
(***************************************************************************)
(* What a work queue promises the service that uses it, without channels,  *)
(* tags, pods or redeliveries: an accepted item stays accepted until a     *)
(* handler of that item succeeds, or until it is given up on: because its  *)
(* content cannot be read, or because a handler failed after the item had  *)
(* used up its one retry.                                                  *)
(***************************************************************************)
EXTENDS Integers

CONSTANTS
    Items,        \* what may be put on the queue
    Unparseable   \* the items whose content cannot be read

VARIABLES
    item,         \* what has become of each item
    succeeded,    \* the items a handler has succeeded for
    failures      \* how often the handling of each item has failed

avars == <<item, succeeded, failures>>

Init ==
    /\ item = [i \in Items |-> "unsent"]
    /\ succeeded = {}
    /\ failures = [i \in Items |-> 0]

(* The queue takes the item, or loses it before it is accepted.            *)
Accept(i) ==
    /\ item[i] = "unsent"
    /\ \E a \in {"accepted", "lost"} : item' = [item EXCEPT ![i] = a]
    /\ UNCHANGED <<succeeded, failures>>

Accepted == {"accepted", "retried"}

Complete(i) ==
    /\ item[i] \in Accepted
    /\ item' = [item EXCEPT ![i] = "acked"]
    /\ succeeded' = succeeded \cup {i}
    /\ UNCHANGED failures

(* The first failure of a handler earns the item its one retry.            *)
Retry(i) ==
    /\ item[i] = "accepted"
    /\ item' = [item EXCEPT ![i] = "retried"]
    /\ failures' = [failures EXCEPT ![i] = @ + 1]
    /\ UNCHANGED succeeded

(* A handler that never came back uses the retry up as well.               *)
Interrupt(i) ==
    /\ item[i] = "accepted"
    /\ item' = [item EXCEPT ![i] = "retried"]
    /\ UNCHANGED <<succeeded, failures>>

GiveUp(i) ==
    /\ item[i] = "retried"
    /\ item' = [item EXCEPT ![i] = "dead"]
    /\ failures' = [failures EXCEPT ![i] = @ + 1]
    /\ UNCHANGED succeeded

Discard(i) ==
    /\ item[i] \in Accepted
    /\ i \in Unparseable
    /\ item' = [item EXCEPT ![i] = "dead"]
    /\ UNCHANGED <<succeeded, failures>>

Next ==
    \E i \in Items :
        \/ Accept(i) \/ Complete(i) \/ Retry(i)
        \/ Interrupt(i) \/ GiveUp(i) \/ Discard(i)

Spec == Init /\ [][Next]_avars
=============================================================================
