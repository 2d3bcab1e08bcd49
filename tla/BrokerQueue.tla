----------------------------- MODULE BrokerQueue -----------------------------
(***************************************************************************)
(* A quorum queue of RabbitMQ, as transport/broker.py declares provider.in *)
(* and provider.out, with a handler that FastStream calls for each message *)
(* under CONSUMER_ACK_POLICY.  A message is delivered to one process at a  *)
(* time; it returns to the queue when its handler raises or its process is *)
(* lost, and the return after the last allowed one sends it to tickets.dlq,*)
(* which nobody reads.                                                     *)
(***************************************************************************)
EXTENDS Naturals

CONSTANTS
    Messages,
    Processes,     \* processes with a handler subscribed to the queue
    DeliveryLimit  \* x-delivery-limit (rmq_max_attempts)

ASSUME QueueAssumption ==
    /\ DeliveryLimit \in Nat
    /\ Processes \cap {"outside", "ready", "acked", "dead"} = {}

VARIABLES
    place,    \* "outside", "ready", the process handling it, "acked" or "dead"
    returns,  \* the delivery counter: times the message was returned
    stage     \* of its handler: "none", "called", ..., "returned"

queueVars == <<place, returns, stage>>

QueueInit ==
    /\ place = [m \in Messages |-> "outside"]
    /\ returns = [m \in Messages |-> 0]
    /\ stage = [m \in Messages |-> "none"]

Held(m) == place[m] \in Processes

\* The types of the queue; the counter stops one past the limit, and exactly
\* the delivered messages have a handler.
QueueTypeOK ==
    /\ place \in [Messages -> {"outside", "ready", "acked", "dead"} \cup Processes]
    /\ returns \in [Messages -> 0..DeliveryLimit + 1]
    /\ \A m \in Messages : Held(m) <=> stage[m] # "none"

-----------------------------------------------------------------------------
\* broker.publish: the exchange routes the message to the queue.
Publish(m) ==
    /\ place[m] = "outside"
    /\ place' = [place EXCEPT ![m] = "ready"]
    /\ UNCHANGED <<returns, stage>>

\* The handler is called in some process.
Deliver(m) ==
    /\ place[m] = "ready"
    /\ \E p \in Processes : place' = [place EXCEPT ![m] = p]
    /\ stage' = [stage EXCEPT ![m] = "called"]
    /\ UNCHANGED returns

Advance(m, from, to) ==
    /\ stage[m] = from
    /\ stage' = [stage EXCEPT ![m] = to]
    /\ UNCHANGED <<place, returns>>

\* The message of a handler that returned is acknowledged.
Ack(m) ==
    /\ stage[m] = "returned"
    /\ place' = [place EXCEPT ![m] = "acked"]
    /\ stage' = [stage EXCEPT ![m] = "none"]
    /\ UNCHANGED returns

\* (variants: no limit, a limit that is off by one, a queue that does
\* not count)
NeverDead(n) == FALSE
DeadTooEarly(n) == n + 1 >= DeliveryLimit
NotCounted(n) == n

LimitReached(n) == n >= DeliveryLimit

\* Only a quorum queue counts its deliveries.
Counted(n) == n + 1

\* The messages of S return.
PutBack(S) ==
    /\ place' = [m \in Messages |->
                   IF m \notin S THEN place[m]
                   ELSE IF LimitReached(returns[m]) THEN "dead" ELSE "ready"]
    /\ returns' = [m \in Messages |->
                     IF m \in S THEN Counted(returns[m]) ELSE returns[m]]
    /\ stage' = [m \in Messages |-> IF m \in S THEN "none" ELSE stage[m]]

\* (variant: the handler's exception is acknowledged)
AckOnError(m) == place' = [place EXCEPT ![m] = "acked"]
                 /\ stage' = [stage EXCEPT ![m] = "none"] /\ UNCHANGED returns

\* NACK_ON_ERROR requeues.
OnError(m) == PutBack({m})

\* The handler raises.
Raise(m) ==
    /\ stage[m] \notin {"none", "returned"}
    /\ OnError(m)

\* A process dies with all its handlers.
Disconnect(p) ==
    /\ \E m \in Messages : place[m] = p
    /\ PutBack({m \in Messages : place[m] = p})
=============================================================================
