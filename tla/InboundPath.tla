----------------------------- MODULE InboundPath -----------------------------
(***************************************************************************)
(* A frame on its way from the provider: the memory of the websocket       *)
(* client, the receive loop of the gateway, the queue provider.in, and     *)
(* _handle of the consumer as its handler.  Until it is published, a frame *)
(* exists in the memory of one process only.                               *)
(*                                                                         *)
(*   loop: reading --Read--> publishing --PublishOk--> acking --SendAck--> *)
(*         reading; "ended" after PublishFails, _CLOSED or CancelLoop      *)
(*   _handle: called --Claim--> working --Finish--> returned               *)
(***************************************************************************)
EXTENDS BrokerQueue, FiniteSets, Sequences

CONSTANT MaxRestarts  \* bound on restarts of the gateway

ASSUME RestartAssumption == MaxRestarts \in Nat

VARIABLES
    sent,       \* frames the provider has sent
    delayed,    \* _background_tasks: frames whose delay is not over
    inbound,    \* _inbound
    session,    \* of the client: "open", "closing" (in stop) or "closed"
    loop, hand, \* the receive loop, and the frame it works on
    provAcked,  \* frames acknowledged to the provider (send_ack)
    restarts,
    inbox,      \* frames whose claim is committed
    dropped     \* frames of terminal tickets, ignored without a claim

clientVars == <<sent, delayed, inbound, session>>
loopVars == <<loop, hand, provAcked>>
consumerVars == <<inbox, dropped>>
vars == <<queueVars, clientVars, loopVars, restarts, consumerVars>>

CLOSED == "closed"
NoFrame == "none"

\* _CLOSED is an object of its own, told from every frame by "is".
ASSUME FrameAssumption == Messages \cap {CLOSED, NoFrame} = {}

Init ==
    /\ QueueInit
    /\ sent = {} /\ delayed = {} /\ inbound = <<>> /\ session = "open"
    /\ loop = "reading" /\ hand = NoFrame /\ provAcked = {}
    /\ restarts = 0
    /\ inbox = {} /\ dropped = {}

-----------------------------------------------------------------------------
(* The client *)

\* _schedule_response starts a task; send does not look at is_connected.
Schedule(f) ==
    /\ f \notin sent
    /\ sent' = sent \cup {f}
    /\ delayed' = delayed \cup {f}
    /\ UNCHANGED <<inbound, session>>

\* The delay is over: _deliver_message_from_provider.
Arrive(f) ==
    /\ f \in delayed
    /\ delayed' = delayed \ {f}
    /\ inbound' = Append(inbound, f)
    /\ UNCHANGED <<sent, session, queueVars, loopVars, restarts, consumerVars>>

\* stop: the tasks are cancelled and awaited, ...
CancelTasks ==
    /\ session = "open"
    /\ session' = "closing"
    /\ delayed' = {}
    /\ UNCHANGED <<sent, inbound>>

\* ... then _CLOSED goes behind the frames that have arrived.
PutClosed ==
    /\ session = "closing"
    /\ session' = "closed"
    /\ inbound' = Append(inbound, CLOSED)
    /\ UNCHANGED <<sent, delayed>>

ClientStep ==
    /\ (\E f \in Messages : Schedule(f)) \/ CancelTasks \/ PutClosed
    /\ UNCHANGED <<queueVars, loopVars, restarts, consumerVars>>

-----------------------------------------------------------------------------
(* The receive loop *)

LoopGoes(to, frame) == loop' = to /\ hand' = frame

\* __anext__: the next frame, or the end of the iteration.
Read ==
    /\ loop = "reading"
    /\ inbound # <<>>
    /\ inbound' = Tail(inbound)
    /\ IF Head(inbound) = CLOSED
         THEN LoopGoes("ended", NoFrame)
         ELSE LoopGoes("publishing", Head(inbound))
    /\ UNCHANGED <<sent, delayed, session, queueVars, provAcked>>

PublishOk ==
    /\ loop = "publishing"
    /\ Publish(hand)
    /\ LoopGoes("acking", hand)
    /\ UNCHANGED <<clientVars, provAcked>>

\* (variants: the loop goes on, to acknowledge the frame or to the next one)
AcksAllTheSame == LoopGoes("acking", hand)
GoesOn == LoopGoes("reading", NoFrame)

\* The except branch around publish: the loop returns, nobody starts it again.
AfterFailure == LoopGoes("ended", NoFrame)

\* publish raises, at any time, and also because FastStream has closed the
\* broker on a signal, before provider.stop; otherwise the broker may have the
\* frame all the same.
PublishFails ==
    /\ loop = "publishing"
    /\ Publish(hand) \/ UNCHANGED queueVars
    /\ AfterFailure
    /\ UNCHANGED <<clientVars, provAcked>>

\* send_ack returns, or raises and the error is logged.
SendAck ==
    /\ loop = "acking"
    /\ \E S \in {{}, {hand}} : provAcked' = provAcked \cup S
    /\ LoopGoes("reading", NoFrame)
    /\ UNCHANGED <<queueVars, clientVars>>

\* stop of the worker, after provider.stop has returned: it cancels the loop
\* at its await, in a publish too.
CancelLoop ==
    /\ session = "closed"
    /\ loop # "ended"
    /\ LoopGoes("ended", NoFrame)
    /\ \/ loop = "publishing" /\ Publish(hand)
       \/ UNCHANGED queueVars
    /\ UNCHANGED <<clientVars, provAcked>>

ReceiveLoop ==
    /\ Read \/ PublishOk \/ PublishFails \/ SendAck \/ CancelLoop
    /\ UNCHANGED <<restarts, consumerVars>>

\* The gateway dies or exits, and is started again without its memory.
Restart ==
    /\ restarts < MaxRestarts
    /\ restarts' = restarts + 1
    /\ delayed' = {} /\ inbound' = <<>> /\ session' = "open"
    /\ LoopGoes("reading", NoFrame)
    /\ UNCHANGED <<queueVars, sent, provAcked, consumerVars>>

-----------------------------------------------------------------------------
(* The consumer.  What a frame does to its ticket is in ProviderConsumer. *)

SkipDuplicate(f) ==
    /\ f \in inbox
    /\ Advance(f, "called", "returned")
    /\ UNCHANGED consumerVars

\* The first commit of the service makes the claim durable.
Claim(f) ==
    /\ f \notin inbox
    /\ Advance(f, "called", "working")
    /\ inbox' = inbox \cup {f}
    /\ UNCHANGED dropped

\* The service returns without a commit, as the ticket is terminal.
Ignore(f) ==
    /\ f \notin inbox
    /\ Advance(f, "called", "returned")
    /\ dropped' = dropped \cup {f}
    /\ UNCHANGED inbox

Finish(f) == Advance(f, "working", "returned") /\ UNCHANGED consumerVars

\* A database error, before or after the first commit.
Raises(f) == Raise(f) /\ UNCHANGED consumerVars

Receive(f) == Deliver(f) /\ UNCHANGED <<clientVars, loopVars, restarts, consumerVars>>

Handle(f) ==
    /\ \/ SkipDuplicate(f) \/ Claim(f) \/ Ignore(f) \/ Finish(f) \/ Raises(f)
       \/ Ack(f) /\ UNCHANGED consumerVars
    /\ UNCHANGED <<clientVars, loopVars, restarts>>

Crash(p) == Disconnect(p) /\ UNCHANGED <<clientVars, loopVars, restarts, consumerVars>>

-----------------------------------------------------------------------------
Next ==
    \/ ClientStep \/ ReceiveLoop \/ Restart
    \/ \E f \in Messages : Arrive(f) \/ Receive(f) \/ Handle(f)
    \/ \E p \in Processes : Crash(p)

Spec == Init /\ [][Next]_vars

\* Delays end, each await of the loop and of a handler ends, and a frame in
\* the queue is delivered, since a consumer that dies is restarted.
FairSpec ==
    /\ Spec
    /\ WF_vars(ReceiveLoop)
    /\ \A f \in Messages :
           WF_vars(Arrive(f)) /\ WF_vars(Receive(f)) /\ WF_vars(Handle(f))

-----------------------------------------------------------------------------
(* Properties *)

InMemory(f) ==
    f \in delayed \/ f = hand \/ \E i \in DOMAIN inbound : inbound[i] = f

\* Frames the provider sent that are nowhere any more.
Lost == {f \in sent : ~InMemory(f) /\ place[f] = "outside"}

\* Every variable has its type.
TypeOK ==
    /\ QueueTypeOK
    /\ stage \in [Messages -> {"none", "called", "working", "returned"}]
    /\ sent \subseteq Messages
    /\ delayed \subseteq sent
    /\ inbound \in Seq(sent \cup {CLOSED})
    /\ session \in {"open", "closing", "closed"}
    /\ loop \in {"reading", "publishing", "acking", "ended"}
    /\ hand \in sent \cup {NoFrame}
    /\ provAcked \cup dropped \cup inbox \subseteq sent
    /\ restarts \in 0..MaxRestarts

\* _recieve_from_provider acknowledges a frame to the provider only when the
\* broker has it: the provider may forget what was acknowledged.
AckedIsPersisted == \A f \in provAcked : place[f] # "outside"

\* As long as the gateway has been neither stopped nor restarted, it has lost
\* at most the one frame whose publish failed, and the loop ended with it:
\* every other frame is in its memory or in the queue.
LossExplained ==
    restarts = 0 /\ session = "open" =>
        /\ Cardinality(Lost) <= 1
        /\ Lost # {} => loop = "ended"

\* A frame leaves provider.in by an acknowledgement only after its claim was
\* committed or its ticket was found terminal, whatever raised or crashed on
\* the way; a frame that did neither is still there, or dead.
AckedWasHandled ==
    \A f \in Messages : place[f] = "acked" => f \in inbox \cup dropped

\* A frame is handled, dead-lettered or lost in the end, unless the receive
\* loop has ended and leaves it in memory.
FramesEnd ==
    \A f \in Messages :
        f \in sent ~> place[f] \in {"acked", "dead"} \/ f \in Lost \/ loop = "ended"

\* README: the gateway reads the websocket and writes to provider.in, with
\* three retries on failures.  Taken at its word, a frame of a provider that
\* is not stopped reaches provider.in.
FramesReachQueue ==
    \A f \in Messages :
        f \in sent ~> place[f] # "outside" \/ session # "open"
=============================================================================
