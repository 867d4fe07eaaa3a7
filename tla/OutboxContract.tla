--------------------------- MODULE OutboxContract ---------------------------
(* What the transactional outbox promises the use cases that append to it,  *)
(* with no lease, no worker and no clock: an appended event stays open      *)
(* until it is settled, it is settled once, as processed only after a       *)
(* handler finished it, as failed only when its retry budget is used up.    *)
(* A handler may finish an event any number of times (at-least-once).       *)
EXTENDS Naturals

CONSTANTS Event, MaxAttempts

VARIABLES
    state,      \* state[e] : what the producer may rely on
    failures,   \* failures[e] : failed attempts that were counted
    delivered   \* the events some handler run has finished

vars == <<state, failures, delivered>>

Init == /\ state = [e \in Event |-> "absent"]
        /\ failures = [e \in Event |-> 0]
        /\ delivered = {}

\* A use case commits an event.
Publish(e) == /\ state[e] = "absent"
              /\ state' = [state EXCEPT ![e] = "open"]
              /\ UNCHANGED <<failures, delivered>>

\* A handler run finishes; a late one may finish a settled event again.
Deliver(e) == /\ state[e] # "absent"
              /\ delivered' = delivered \cup {e}
              /\ UNCHANGED <<state, failures>>

Settle(e) == /\ state[e] = "open"
             /\ e \in delivered
             /\ state' = [state EXCEPT ![e] = "processed"]
             /\ UNCHANGED <<failures, delivered>>

\* One failed attempt is counted; the last one gives the event up.
CountFailure(e) ==
    /\ state[e] = "open"
    /\ failures[e] < MaxAttempts
    /\ failures' = [failures EXCEPT ![e] = @ + 1]
    /\ state' = [state EXCEPT ![e] = IF failures[e] + 1 = MaxAttempts THEN "failed" ELSE "open"]
    /\ UNCHANGED delivered

Next == \E e \in Event : Publish(e) \/ Deliver(e) \/ Settle(e) \/ CountFailure(e)

Spec == Init /\ [][Next]_vars
=============================================================================
