--------------------------- MODULE TicketLifecycle ---------------------------
(***************************************************************************)
(* The life of tickets under all the processes that change them: the API,  *)
(* the gateway, the consumer and the reconciler, over queues that deliver  *)
(* at least once.  Here an outbox event, and a frame of the provider, may  *)
(* be delivered at any time, never, or again.                              *)
(***************************************************************************)
EXTENDS ProviderConsumer, ProviderGateway, Reconciler

vars == <<storeVars, providerVars, consumerVars, gatewayVars, reconcilerVars>>

Init ==
    /\ StoreInit
    /\ ProviderInit
    /\ ConsumerInit
    /\ GatewayInit
    /\ ReconcilerInit

Create ==
    /\ \E t \in Tickets : CreateTicket(t)
    /\ UNCHANGED <<providerVars, consumerVars, gatewayVars, reconcilerVars>>

TimePasses ==
    /\ \E t \in Tickets : GrowOld(t)
    /\ UNCHANGED <<providerVars, consumerVars, gatewayVars, reconcilerVars>>

Consume ==
    /\ \E h \in Handlers : ConsumerStep(h)
    /\ UNCHANGED <<providerVars, gatewayVars, reconcilerVars>>

Send ==
    /\ \E g \in Senders : GatewayStep(g)
    /\ UNCHANGED <<consumerVars, reconcilerVars>>

Reconcile ==
    /\ \E r \in Reconcilers : ReconcilerStep(r)
    /\ UNCHANGED <<providerVars, consumerVars, gatewayVars>>

Next == Create \/ TimePasses \/ Consume \/ Send \/ Reconcile

Spec == Init /\ [][Next]_vars

\* A step of the reconciler, or of a handler that holds a row lock.
Tick(A) == A /\ UNCHANGED <<providerVars, consumerVars, gatewayVars>>
Unlock(h) ==
    CommitCancellation(h) /\ UNCHANGED <<providerVars, gatewayVars, reconcilerVars>>

\* Time passes.  The reconciler polls for ever (run catches what a tick raises),
\* its rows are not locked for ever since each call of the monolith returns,
\* and not every tick of it is aborted.  Nothing is assumed of the provider,
\* of the queues, or of handlers that hold no lock.
FairSpec ==
    /\ Spec
    /\ WF_vars(TimePasses)
    /\ \A h \in Handlers : WF_vars(Unlock(h))
    /\ \A r \in Reconcilers :
           /\ SF_vars(Tick(\E B \in SUBSET Tickets : FindStuck(r, B)))
           /\ SF_vars(Tick(\E t \in Tickets : StartCancel(r, t)))
           /\ SF_vars(Tick(FinishCancel(r)))

-----------------------------------------------------------------------------
(* Types *)

\* Every variable of the five parts has its type.
TypeOK ==
    /\ StoreTypeOK
    /\ ProviderTypeOK
    /\ ConsumerTypeOK
    /\ GatewayTypeOK
    /\ ReconcilerTypeOK

-----------------------------------------------------------------------------
(* Safety *)

HasEvent(t, types) ==
    \E e \in DOMAIN outbox : outbox[e].ticket = t /\ outbox[e].type \in types

AckTypes == {"CONFIRM_RECOMMENDATION", "DECLINE_RECOMMENDATION"}

\* The outbox pattern: a status the provider must hear about is never
\* committed without the event that tells it (create_ticket, the second half
\* of apply_recommendation, request_cancellation).
TransactionalOutbox ==
    \A t \in Tickets :
        /\ status[t] # "absent" => HasEvent(t, {"TICKET"})
        /\ status[t] = "settled" => HasEvent(t, AckTypes)
        /\ status[t] = "cancellation_requested" =>
               HasEvent(t, {"REQUEST_CANCELLATION"})

\* A ticket is confirmed or declined only on an answer that the provider has
\* acknowledged, and behind that answer stands a recommendation of the same
\* action, claimed in the inbox and settled by the monolith.
DecisionGrounded ==
    \A t \in Tickets : status[t] \in {"confirmed", "declined"} =>
        \E e \in accepted \cap DOMAIN outbox :
            LET f == outbox[e].cause IN
            /\ outbox[e].ticket = t
            /\ outbox[e].type \in AckTypes
            /\ Decided(outbox[e].type) = status[t]
            /\ f \in inbox
            /\ settled[f] = 1
            /\ frames[f].ticket = t
            /\ frames[f].action = "accept" <=> status[t] = "confirmed"

\* A ticket is cancelled only on a CANCELLATION_APPLIED frame that is in the
\* inbox, and the provider sent it for a request of ours that it acknowledged.
CancellationGrounded ==
    \A t \in Tickets : status[t] = "cancelled" =>
        /\ \E f \in inbox :
               frames[f].ticket = t /\ frames[f].type = "CANCELLATION_APPLIED"
        /\ \E e \in accepted \cap DOMAIN outbox :
               /\ outbox[e].ticket = t
               /\ outbox[e].type = "REQUEST_CANCELLATION"

\* However often a frame is redelivered and however its handlers interleave
\* or fail, the monolith settles it at most once and it makes at most one
\* outbox event: an answer if the monolith settled it, else a cancellation.
OneAnswerPerFrame ==
    /\ \A f \in DOMAIN settled : settled[f] <= 1
    /\ \A e, d \in DOMAIN outbox :
           outbox[e].cause # 0 /\ outbox[e].cause = outbox[d].cause => e = d
    /\ \A e \in DOMAIN outbox : outbox[e].cause # 0 =>
           (outbox[e].type \in AckTypes <=> settled[outbox[e].cause] = 1)

\* The gateway's late bookkeeping never takes a ticket back: once a
\* recommendation is stored the ticket is not NEW or SENT_TO_PROVIDER again,
\* even when the recommendation overtakes the gateway's own transaction.
NoEarlyRegress ==
    \A t \in Tickets :
        recommendation[t] # NoAction => status[t] \notin {"new", "sent_to_provider"}

\* Row locks and the work they protect agree: a handler holds a row exactly
\* while its request_cancellation calls the monolith, a reconciler only for a
\* ticket of its batch, and at most one cancellation of a ticket is running.
LocksMatchWork ==
    \A t \in Tickets :
        /\ holder[t] \notin Senders
        /\ \A h \in Handlers :
               holder[t] = h <=> At(h, "cancel_calling") /\ TicketOf(h) = t
        /\ \A r \in Reconcilers :
               /\ holder[t] = r => t \in batch[r]
               /\ current[r] = t => holder[t] = r

-----------------------------------------------------------------------------
(* Action properties *)

\* try_claim's promise: a claim becomes durable in the same commit as the
\* effect of its frame on the ticket.
ClaimCommitsWithEffect ==
    [][\A f \in inbox' \ inbox :
           LET t == frames[f].ticket IN
           IF frames[f].type = "RECOMMENDATION"
             THEN /\ status'[t] = Recommended(frames[f].action)
                  /\ recommendation'[t] = frames[f].action
             ELSE status'[t] = "cancelled"]_vars

\* A row that a session has locked changes only in the commit that releases
\* the lock, so request_cancellation works on a row nobody moves under it.
LockedRowsUntouched ==
    [][\A t \in Tickets :
           status'[t] # status[t] /\ holder[t] # NoSession =>
               holder'[t] = NoSession]_vars

\* The checks that read a fresh row work: a terminal status is never replaced
\* by a new recommendation or by an answer.  What does replace it is a stale
\* settle or request_cancellation, or mark_cancellation_applied.
TerminalReopensOnlyStale ==
    [][\A t \in Tickets :
           Terminal(status[t]) /\ status'[t] # status[t] =>
               status'[t] \in {"settled", "cancellation_requested", "cancelled"}]_vars

-----------------------------------------------------------------------------
(* Liveness *)

Requests(t) ==
    {e \in DOMAIN outbox :
        outbox[e].ticket = t /\ outbox[e].type = "REQUEST_CANCELLATION"}

\* Nothing gets stuck for good: however often the provider has been asked to
\* cancel a ticket, if the ticket does not become terminal the reconciler asks
\* once more (and fills the outbox, when the provider never answers).
AskedAgain ==
    \A t \in Tickets, n \in 0..MaxEvents :
        status[t] # "absent" /\ Cardinality(Requests(t)) = n ~>
            \/ Terminal(status[t])
            \/ Cardinality(Requests(t)) > n
            \/ Len(outbox) = MaxEvents

-----------------------------------------------------------------------------
(* Refinement *)

\* The phase of frame f, read off the inbox, the monolith and the outbox.
FramePhase(f) ==
    LET events == {e \in DOMAIN outbox : outbox[e].cause = f} IN
    CASE events = {} /\ f \notin inbox -> "unseen"
      [] events = {} /\ f \in inbox -> IF settled[f] > 0 THEN "settled" ELSE "taken"
      [] \E e \in events : outbox[e].type \notin AckTypes -> "refused"
      [] OTHER -> IF events \cap accepted = {} THEN "answered" ELSE "acknowledged"

PerFrame == INSTANCE FrameContract WITH
    Frames <- 1..MaxFrames,
    phase <- [f \in 1..MaxFrames |-> FramePhase(f)],
    settlements <- settled

\* All the handlers, redeliveries, failures and senders together take every
\* frame once through its phases.
ImplementsFrameContract == PerFrame!Spec

\* The recommendations of ticket t whose frames are in the inbox, and whether
\* the provider is to be asked for its cancellation.
Grounds(t) ==
    {frames[f].action : f \in {g \in inbox :
        frames[g].ticket = t /\ frames[g].type = "RECOMMENDATION"}}
    \cup {"cancel" : e \in {d \in DOMAIN outbox :
        outbox[d].ticket = t /\ outbox[d].type = "REQUEST_CANCELLATION"}}

PerTicket == INSTANCE DecisionContract WITH
    grounds <- [t \in Tickets |-> Grounds(t)]

\* Whatever the processes do to a row, stale objects included, is a step of the
\* state machine of DecisionContract.
ImplementsDecisionContract == PerTicket!Spec

-----------------------------------------------------------------------------
(* What the code says and does not do *)

\* ticket.py checks TERMINAL_TICKET_STATUSES under the row lock before it
\* settles; taken at its word, no terminal ticket becomes SETTLED.
SettleSparesTerminal ==
    [][\A t \in Tickets : Terminal(status[t]) => status'[t] # "settled"]_vars
=============================================================================
