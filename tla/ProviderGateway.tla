--------------------------- MODULE ProviderGateway ---------------------------
(***************************************************************************)
(* The sending half of ProviderGatewayWorker: _send_to_provider and        *)
(* _handle_message_success_ack.                                            *)
(*                                                                         *)
(*   idle --Take--> sending --ProviderAccepts--> acked --RecordAck--> idle *)
(***************************************************************************)
EXTENDS ProviderChannel

VARIABLES
    gpc,     \* where each sender is
    gevent   \* outbox event each sender carries, 0 when idle

gatewayVars == <<gpc, gevent>>

SenderStates == {"idle", "sending", "acked"}

GatewayInit ==
    /\ gpc = [g \in Senders |-> "idle"]
    /\ gevent = [g \in Senders |-> 0]

\* The types of the senders.
GatewayTypeOK ==
    /\ gpc \in [Senders -> SenderStates]
    /\ gevent \in [Senders -> 0..MaxEvents]

-----------------------------------------------------------------------------
EventOf(g) == outbox[gevent[g]]

Return(g) ==
    /\ gpc' = [gpc EXCEPT ![g] = "idle"]
    /\ gevent' = [gevent EXCEPT ![g] = 0]

\* A message of provider.out is delivered: the first time, or again.
Take(g, e) ==
    /\ gpc[g] = "idle"
    /\ e \in DOMAIN outbox
    /\ gpc' = [gpc EXCEPT ![g] = "sending"]
    /\ gevent' = [gevent EXCEPT ![g] = e]
    /\ UNCHANGED <<storeVars, providerVars>>

\* ConnectionError (the message is requeued), or ProviderAckError (it is
\* dropped): _handle_message_rejection does nothing.
ProviderRefuses(g) ==
    /\ gpc[g] = "sending"
    /\ Return(g)
    /\ UNCHANGED <<storeVars, providerVars>>

\* The provider answers "ok"; for REQUEST_CANCELLATION nothing else follows.
ProviderAccepts(g) ==
    /\ gpc[g] = "sending"
    /\ Accept(gevent[g])
    /\ IF EventOf(g).type = "REQUEST_CANCELLATION"
         THEN Return(g)
         ELSE /\ gpc' = [gpc EXCEPT ![g] = "acked"]
              /\ UNCHANGED gevent
    /\ UNCHANGED storeVars

\* (variants: one of the two checks is missing)
AppliesWithoutNewCheck(type, st) == ~Terminal(st)
AppliesToTerminal(type, st) == type = "TICKET" => st = "new"

\* The early returns of _handle_message_success_ack.
AckApplies(type, st) ==
    /\ ~Terminal(st)
    /\ type = "TICKET" => st = "new"

\* The target status of _handle_message_success_ack.
AckTarget(type) ==
    IF type = "TICKET" THEN "sent_to_provider" ELSE Decided(type)

\* The transaction of _handle_message_success_ack, in a session of its own.
RecordAck(g) ==
    LET e == EventOf(g)
        t == e.ticket
    IN
    /\ gpc[g] = "acked"
    /\ Lockable(g, t)
    /\ IF AckApplies(e.type, status[t])
         THEN /\ status' = [status EXCEPT ![t] = AckTarget(e.type)]
              /\ Touch(t)
         ELSE UNCHANGED <<status, aged>>
    /\ Return(g)
    /\ UNCHANGED <<recommendation, holder, seen, outbox, providerVars>>

\* A crash, or an error of the transaction after the provider's "ok": the
\* message will be redelivered.
FailSender(g) ==
    /\ gpc[g] # "idle"
    /\ Return(g)
    /\ UNCHANGED <<storeVars, providerVars>>

GatewayStep(g) ==
    \/ \E e \in DOMAIN outbox : Take(g, e)
    \/ ProviderRefuses(g)
    \/ ProviderAccepts(g)
    \/ RecordAck(g)
    \/ FailSender(g)
=============================================================================
