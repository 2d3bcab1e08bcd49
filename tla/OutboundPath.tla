---------------------------- MODULE OutboundPath ----------------------------
(***************************************************************************)
(* An outbox event on its way to the provider: the outbox producers, here  *)
(* by the contract that OutboxRelay implements, the queue provider.out,    *)
(* and _send_to_provider as its handler.                                   *)
(*                                                                         *)
(*   called --SendOk--> recording --RecordDone--> returned                 *)
(*   called --SendRejected--> returned                                     *)
(***************************************************************************)
EXTENDS Naturals

CONSTANTS
    Events,        \* outbox events
    MaxCopies,     \* bound on the publishes of one event
    Gateways,      \* provider_gateway processes
    DeliveryLimit  \* x-delivery-limit of provider.out

ASSUME OutboundAssumption ==
    /\ DeliveryLimit \in Nat
    /\ Gateways \cap {"outside", "ready", "acked", "dead"} = {}

VARIABLES
    state,                  \* of each event, as in OutboxContract
    cancellations,          \* events of type REQUEST_CANCELLATION
    place, returns, stage,  \* the queue of copies
    oks,                    \* times the provider answered "ok" to each copy
    rejected,               \* copies it has rejected (ProviderAckError)
    recorded                \* copies whose bookkeeping is over

Copies == Events \X (1..MaxCopies)

INSTANCE BrokerQueue WITH Messages <- Copies, Processes <- Gateways

Queued(e) == \E n \in 1..MaxCopies : place[<<e, n>>] # "outside"

Relay == INSTANCE OutboxContract WITH queued <- {e \in Events : Queued(e)}

queue == <<place, returns, stage>>
effects == <<oks, rejected, recorded>>
vars == <<state, cancellations, queue, effects>>

Init ==
    /\ state = [e \in Events |-> "absent"]
    /\ cancellations = {}
    /\ QueueInit
    /\ oks = [c \in Copies |-> 0]
    /\ rejected = {}
    /\ recorded = {}

-----------------------------------------------------------------------------
\* A service commits an event, of one type or another.
AddEvent(e) ==
    /\ cancellations' \in {cancellations, cancellations \cup {e}}
    /\ UNCHANGED <<queue, effects>>
    /\ Relay!Add(e)

\* A publish puts one more copy into the queue.
PublishCopy(e) ==
    /\ \E n \in 1..MaxCopies :
           /\ \A k \in 1..n - 1 : place[<<e, k>>] # "outside"
           /\ Publish(<<e, n>>)
    /\ Relay!Enqueue(e)
    /\ UNCHANGED <<cancellations, effects>>

\* A batch is committed.
DecideBatch ==
    /\ UNCHANGED <<cancellations, queue, effects>>
    /\ \E P, F \in SUBSET Events : P \cup F # {} /\ Relay!Decide(P, F)

-----------------------------------------------------------------------------
\* ProviderAckError: _handle_message_rejection does nothing, and
\* _send_to_provider returns.
SendRejected(c) ==
    /\ Advance(c, "called", "returned")
    /\ rejected' = rejected \cup {c}
    /\ UNCHANGED <<oks, recorded>>

\* The provider answers "ok".  For REQUEST_CANCELLATION nothing is recorded.
SendOk(c) ==
    /\ Advance(c, "called", IF c[1] \in cancellations THEN "returned" ELSE "recording")
    /\ oks' = [oks EXCEPT ![c] = @ + 1]
    /\ UNCHANGED <<rejected, recorded>>

\* The transaction of _handle_message_success_ack is over: it has written the
\* ticket, or returned early as the ticket is terminal or no longer NEW.
RecordDone(c) ==
    /\ Advance(c, "recording", "returned")
    /\ recorded' = recorded \cup {c}
    /\ UNCHANGED <<oks, rejected>>

\* provider.send raises ConnectionError, or the transaction fails.
Raises(c) == Raise(c) /\ UNCHANGED effects

Receive(c) == Deliver(c) /\ UNCHANGED <<state, cancellations, effects>>

Handle(c) ==
    /\ \/ SendRejected(c) \/ SendOk(c) \/ RecordDone(c) \/ Raises(c)
       \/ Ack(c) /\ UNCHANGED effects
    /\ UNCHANGED <<state, cancellations>>

Crash(g) == Disconnect(g) /\ UNCHANGED <<state, cancellations, effects>>

Next ==
    \/ \E e \in Events : AddEvent(e) \/ PublishCopy(e)
    \/ DecideBatch
    \/ \E c \in Copies : Receive(c) \/ Handle(c)
    \/ \E g \in Gateways : Crash(g)

Spec == Init /\ [][Next]_vars

\* The producers decide what is pending (EveryEventDecided of OutboxRelay), the
\* queue delivers to a gateway, and every await of a handler ends.
FairSpec ==
    /\ Spec
    /\ WF_vars(DecideBatch)
    /\ \A c \in Copies : WF_vars(Receive(c)) /\ WF_vars(Handle(c))

-----------------------------------------------------------------------------
(* Properties *)

\* Every variable has its type.
TypeOK ==
    /\ QueueTypeOK
    /\ stage \in [Copies -> {"none", "called", "recording", "returned"}]
    /\ state \in [Events -> {"absent", "pending", "published", "failed"}]
    /\ cancellations \subseteq Events
    /\ oks \in [Copies -> Nat]
    /\ rejected \cup recorded \subseteq Copies

\* No event vanishes between outbox and provider: of a PUBLISHED event there
\* is a copy in the queue, in a handler, in the dead-letter queue, or done, and
\* done means rejected, or accepted and its bookkeeping over (what that does to
\* the ticket is in ProviderGateway).
NothingVanishes ==
    /\ \A e \in Events : state[e] = "published" => Queued(e)
    /\ \A c \in Copies : place[c] = "acked" =>
           \/ c \in rejected
           \/ oks[c] > 0 /\ (c[1] \in cancellations \/ c \in recorded)

\* x-delivery-limit bounds what the provider sees of one copy, across crashes
\* and lost acknowledgements, and only a copy that used up its retries is dead.
RetriesBounded ==
    \A c \in Copies :
        /\ oks[c] <= DeliveryLimit + 1
        /\ oks[c] <= returns[c] + (IF Held(c) \/ place[c] = "acked" THEN 1 ELSE 0)
        /\ place[c] = "dead" <=> returns[c] > DeliveryLimit

\* Every committed event comes to an end: given up by the producer, or with a
\* copy handled or in the dead-letter queue.  Failing sends, failing
\* transactions and dying gateways cannot keep it going round for ever.
EveryEventEnds ==
    \A e \in Events : state[e] = "pending" ~>
        \/ state[e] = "failed"
        \/ \E n \in 1..MaxCopies : place[<<e, n>>] \in {"acked", "dead"}
=============================================================================
