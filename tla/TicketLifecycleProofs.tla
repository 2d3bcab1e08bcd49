------------------------ MODULE TicketLifecycleProofs ------------------------
(***************************************************************************)
(* Theorems about TicketLifecycle, for every number of tickets, handlers,  *)
(* senders and reconcilers and every bound: its types, and what holds of   *)
(* its tables and row locks, namely what only grows, which rows exist, who *)
(* holds which lock, and what that means for a status.                     *)
(***************************************************************************)
EXTENDS TicketLifecycle, TLAPS, SequenceTheorems

\* What TypeOK needs to be inductive: the work a process carries exists, and
\* the sequences respect their bounds.
WorkExists ==
    /\ Len(outbox) <= MaxEvents
    /\ Len(frames) <= MaxFrames
    /\ \A h \in Handlers : cpc[h] # "idle" => cframe[h] \in DOMAIN frames
    /\ \A g \in Senders : gpc[g] # "idle" => gevent[g] \in DOMAIN outbox
    /\ \A r \in Reconcilers :
           rpc[r] = "cancel_calling" => current[r] \in Tickets

TypeInv == TypeOK /\ WorkExists

-----------------------------------------------------------------------------
(* Lemmas about the operations of the store and of the provider *)

\* A status change to a status keeps the column typed.
LEMMA ChangeStatusType ==
    ASSUME StoreTypeOK, NEW s \in Sessions, NEW t \in Tickets,
           NEW to \in TicketStatus, ChangeStatus(s, t, to)
    PROVE  status' \in [Tickets -> TicketStatus]
BY DEF ChangeStatus, StoreTypeOK

\* Closing a session keeps identity maps and locks typed.
LEMMA CloseType ==
    ASSUME StoreTypeOK, NEW s \in Sessions
    PROVE  /\ Forget(s) => seen' \in [Sessions -> [Tickets -> TicketStatus \cup {NotLoaded}]]
           /\ ReleaseLocks(s) => holder' \in [Tickets -> Sessions \cup {NoSession}]
BY DEF StoreTypeOK, Forget, ReleaseLocks

\* Emit extends the outbox by one event and keeps the ones that are there.
LEMMA EmitType ==
    ASSUME StoreTypeOK, NEW type \in OutboundTypes, NEW t \in Tickets,
           NEW cause \in Nat, Emit(type, t, cause)
    PROVE  /\ outbox' \in Seq(Event)
           /\ Len(outbox) < MaxEvents
           /\ Len(outbox') = Len(outbox) + 1
           /\ Len(outbox') <= MaxEvents
           /\ DOMAIN outbox' = DOMAIN outbox \cup {Len(outbox) + 1}
           /\ \A e \in DOMAIN outbox : outbox'[e] = outbox[e]
           /\ outbox'[Len(outbox) + 1] =
                  [type |-> type, ticket |-> t, cause |-> cause]
<1> DEFINE ev == [type |-> type, ticket |-> t, cause |-> cause]
<1>1. ev \in Event
  BY DEF Event
<1>2. outbox \in Seq(Event) /\ outbox' = Append(outbox, ev) /\ Len(outbox) < MaxEvents
  BY DEF StoreTypeOK, Emit
<1>3. QED
  BY <1>1, <1>2, MaxEventsIsNat

\* The provider's answers are frames.
LEMMA AnswersType ==
    ASSUME NEW m \in Event, NEW a \in Answers(m)
    PROVE  a \in Frame
BY DEF Event, Answers, Frame, OutboundTypes, HANDLED_TYPES

\* Accept keeps the frames that are there and adds at most one.
LEMMA AcceptType ==
    ASSUME StoreTypeOK, ProviderTypeOK, MaxFrames \in Nat,
           Len(frames) <= MaxFrames, NEW e \in DOMAIN outbox, Accept(e)
    PROVE  /\ ProviderTypeOK'
           /\ Len(frames') <= MaxFrames
           /\ DOMAIN frames \subseteq DOMAIN frames'
           /\ \A f \in DOMAIN frames : frames'[f] = frames[f]
<1>1. outbox[e] \in Event /\ e \in Nat
  BY DEF StoreTypeOK
<1>2. accepted' \subseteq Nat
  BY <1>1 DEF Accept, ProviderTypeOK
<1>3. CASE Answers(outbox[e]) = {}
  BY <1>2, <1>3 DEF Accept, ProviderTypeOK
<1>4. CASE Answers(outbox[e]) # {}
  <2>1. PICK a \in Answers(outbox[e]) :
            Len(frames) < MaxFrames /\ frames' = Append(frames, a)
    BY <1>4 DEF Accept
  <2>2. a \in Frame
    BY <1>1, <2>1, AnswersType
  <2>3. QED
    BY <1>2, <2>1, <2>2 DEF ProviderTypeOK
<1>5. QED
  BY <1>3, <1>4

\* The indices of the frames and events in hand lie within the bounds.
LEMMA IndexBounds ==
    ASSUME TypeInv
    PROVE  /\ DOMAIN frames \subseteq 1..MaxFrames
           /\ DOMAIN outbox \subseteq 1..MaxEvents
           /\ \A f \in DOMAIN frames : frames[f] \in Frame
           /\ \A e \in DOMAIN outbox : outbox[e] \in Event
BY MaxFramesIsNat, MaxEventsIsNat
   DEF TypeInv, TypeOK, WorkExists, StoreTypeOK, ProviderTypeOK

\* Recommended, AckType and AckTarget return what the columns may hold.
LEMMA TargetsType ==
    /\ \A a : Recommended(a) \in TicketStatus
    /\ \A a : AckType(a) \in OutboundTypes
    /\ \A type : AckTarget(type) \in TicketStatus
BY DEF Recommended, AckType, AckTarget, Decided, TicketStatus,
       TERMINAL_TICKET_STATUSES, OutboundTypes

-----------------------------------------------------------------------------
(* TypeInv is inductive: one lemma per process *)

\* Every step of a handler: _handle and the service methods it calls.
LEMMA ConsumerKeepsType ==
    ASSUME TypeInv, NEW h \in Handlers, ConsumerStep(h),
           UNCHANGED <<providerVars, gatewayVars, reconcilerVars>>
    PROVE  TypeInv'
<1> USE DEF TypeInv, TypeOK
<1>a. h \in Sessions
  BY DEF Sessions
<1>b. /\ DOMAIN frames \subseteq 1..MaxFrames
      /\ \A f \in DOMAIN frames : frames[f] \in Frame
  BY IndexBounds
<1>c. ASSUME cpc[h] # "idle"
      PROVE  /\ cframe[h] \in DOMAIN frames /\ cframe[h] \in Nat
             /\ cframe[h] \in 1..MaxFrames
             /\ TicketOf(h) \in Tickets
             /\ ActionOf(h) \in RecommendationAction \cup {NoAction}
  BY <1>b, <1>c, MaxFramesIsNat DEF WorkExists, TicketOf, ActionOf, Frame
<1>d. ASSUME Finish(h), UNCHANGED outbox
      PROVE  /\ cpc' \in [Handlers -> HandlerStates]
             /\ cframe' \in [Handlers -> 0..MaxFrames]
             /\ holder' \in [Tickets -> Sessions \cup {NoSession}]
             /\ seen' \in [Sessions -> [Tickets -> TicketStatus \cup {NotLoaded}]]
             /\ WorkExists'
  BY <1>a, <1>d, CloseType, MaxFramesIsNat
     DEF Finish, WorkExists, ConsumerTypeOK, HandlerStates,
         providerVars, gatewayVars, reconcilerVars
<1> USE DEF providerVars, gatewayVars, reconcilerVars, storeVars
<1>1. ASSUME NEW f \in DOMAIN frames, Claim(h, f)
      PROVE  TypeInv'
  BY <1>1, <1>b DEF Claim, InsertClaim, At, ConsumerTypeOK, StoreTypeOK,
     ProviderTypeOK, GatewayTypeOK, ReconcilerTypeOK, WorkExists, HandlerStates
<1>2. ASSUME NEW f \in DOMAIN frames, SkipDuplicate(h, f)
      PROVE  TypeInv'
  BY <1>2 DEF SkipDuplicate, consumerVars, ConsumerTypeOK, StoreTypeOK,
     ProviderTypeOK, GatewayTypeOK, ReconcilerTypeOK, WorkExists
<1>3. ASSUME IgnoreRecommendation(h)
      PROVE  TypeInv'
  BY <1>3, <1>d DEF IgnoreRecommendation, ConsumerTypeOK, StoreTypeOK,
     ProviderTypeOK, GatewayTypeOK, ReconcilerTypeOK
<1>4. ASSUME ApplyRecommendation(h)
      PROVE  TypeInv'
  <2>1. cpc[h] # "idle"
    BY <1>4 DEF ApplyRecommendation, At
  <2>2. status' \in [Tickets -> TicketStatus]
    BY <1>4, <1>a, <1>c, <2>1, ChangeStatusType, TargetsType DEF ApplyRecommendation
  <2>3. StoreTypeOK'
    BY <1>4, <1>a, <1>c, <2>1, <2>2, TargetsType
       DEF ApplyRecommendation, StoreTypeOK, Touch
  <2>4. ConsumerTypeOK' /\ WorkExists'
    BY <1>4, <1>c, <2>1
       DEF ApplyRecommendation, ConsumerTypeOK, WorkExists, CommitClaim, GoTo,
           HandlerStates
  <2>5. QED
    BY <2>3, <2>4 DEF ProviderTypeOK, GatewayTypeOK, ReconcilerTypeOK
<1>5. ASSUME MonolithSettles(h)
      PROVE  TypeInv'
  BY <1>5, <1>c DEF MonolithSettles, At, GoTo, ConsumerTypeOK, StoreTypeOK,
     ProviderTypeOK, GatewayTypeOK, ReconcilerTypeOK, WorkExists, HandlerStates
<1>6. ASSUME MonolithFails(h)
      PROVE  TypeInv'
  BY <1>6, <1>c DEF MonolithFails, At, GoTo, ConsumerTypeOK, StoreTypeOK,
     ProviderTypeOK, GatewayTypeOK, ReconcilerTypeOK, WorkExists, HandlerStates
<1>e. ASSUME Finish(h), NEW type \in OutboundTypes, NEW to \in TicketStatus,
             NEW t \in Tickets, cframe[h] \in Nat, ChangeStatus(h, t, to),
             Touch(t), Emit(type, t, cframe[h]),
             UNCHANGED <<inbox, settled, recommendation>>
      PROVE  TypeInv'
  <2>1. /\ cpc' \in [Handlers -> HandlerStates]
        /\ cframe' \in [Handlers -> 0..MaxFrames]
    BY <1>e, MaxFramesIsNat DEF Finish, ConsumerTypeOK, HandlerStates
  <2>2. /\ outbox' \in Seq(Event)
        /\ Len(outbox') <= MaxEvents
        /\ DOMAIN outbox \subseteq DOMAIN outbox'
    BY <1>e, EmitType
  <2>3. StoreTypeOK'
    BY <1>e, <1>a, <2>2, ChangeStatusType, CloseType DEF Finish, StoreTypeOK, Touch
  <2>4. WorkExists'
    BY <1>e, <2>2 DEF WorkExists, Finish, ConsumerTypeOK
  <2>5. QED
    BY <1>e, <2>1, <2>3, <2>4
       DEF ConsumerTypeOK, ProviderTypeOK, GatewayTypeOK, ReconcilerTypeOK
<1>7. ASSUME Settle(h)
      PROVE  TypeInv'
  <2>1. cpc[h] # "idle" /\ Finish(h)
    BY <1>7 DEF Settle, At
  <2>2. CASE Terminal(Loaded(h, TicketOf(h)))
    BY <1>7, <2>1, <2>2, <1>d DEF Settle, ConsumerTypeOK, StoreTypeOK,
       ProviderTypeOK, GatewayTypeOK, ReconcilerTypeOK
  <2>3. CASE ~Terminal(Loaded(h, TicketOf(h)))
    BY <1>7, <2>1, <2>3, <1>c, <1>e, TargetsType DEF Settle, TicketStatus
  <2>4. QED
    BY <2>2, <2>3
<1>8. ASSUME LockForCancel(h)
      PROVE  TypeInv'
  BY <1>8, <1>a, <1>c DEF LockForCancel, At, GoTo, ConsumerTypeOK, StoreTypeOK,
     ProviderTypeOK, GatewayTypeOK, ReconcilerTypeOK, WorkExists, HandlerStates
<1>9. ASSUME CommitCancellation(h)
      PROVE  TypeInv'
  BY <1>9, <1>c, <1>e DEF CommitCancellation, At, TicketStatus, OutboundTypes
<1>10. ASSUME ApplyCancellation(h)
       PROVE  TypeInv'
  <2>1. cpc[h] # "idle" /\ Finish(h) /\ UNCHANGED <<settled, recommendation, outbox>>
    BY <1>10 DEF ApplyCancellation, At
  <2>2. CASE Loaded(h, TicketOf(h)) = "cancelled"
    BY <1>10, <2>1, <2>2, <1>d DEF ApplyCancellation, ConsumerTypeOK,
       StoreTypeOK, ProviderTypeOK, GatewayTypeOK, ReconcilerTypeOK
  <2>3. CASE Loaded(h, TicketOf(h)) # "cancelled"
    <3>1. /\ ChangeStatus(h, TicketOf(h), "cancelled")
          /\ Touch(TicketOf(h))
          /\ CommitClaim(cframe[h])
      BY <1>10, <2>3 DEF ApplyCancellation
    <3>2. status' \in [Tickets -> TicketStatus]
      BY <1>a, <1>c, <2>1, <3>1, ChangeStatusType DEF TicketStatus, TERMINAL_TICKET_STATUSES
    <3>3. QED
      BY <1>c, <1>d, <2>1, <3>1, <3>2 DEF CommitClaim, Touch, ConsumerTypeOK,
         StoreTypeOK, ProviderTypeOK, GatewayTypeOK, ReconcilerTypeOK
  <2>4. QED
    BY <2>2, <2>3
<1>11. ASSUME FailHandler(h)
       PROVE  TypeInv'
  BY <1>11, <1>d DEF FailHandler, ConsumerTypeOK, StoreTypeOK,
     ProviderTypeOK, GatewayTypeOK, ReconcilerTypeOK
<1>12. QED
  BY <1>1, <1>2, <1>3, <1>4, <1>5, <1>6, <1>7, <1>8, <1>9, <1>10, <1>11
     DEF ConsumerStep

\* Every step of a sender: _send_to_provider and the bookkeeping after it.
LEMMA GatewayKeepsType ==
    ASSUME TypeInv, NEW g \in Senders, GatewayStep(g),
           UNCHANGED <<consumerVars, reconcilerVars>>
    PROVE  TypeInv'
<1> USE DEF TypeInv, TypeOK, consumerVars, reconcilerVars
<1>a. /\ DOMAIN outbox \subseteq 1..MaxEvents
      /\ \A e \in DOMAIN outbox : outbox[e] \in Event
  BY IndexBounds
<1>b. ASSUME Return(g), UNCHANGED outbox, DOMAIN frames \subseteq DOMAIN frames',
             Len(frames') <= MaxFrames
      PROVE  GatewayTypeOK' /\ WorkExists'
  BY <1>b, MaxEventsIsNat DEF Return, GatewayTypeOK, SenderStates, WorkExists
<1>1. ASSUME NEW e \in DOMAIN outbox, Take(g, e)
      PROVE  TypeInv'
  BY <1>1, <1>a DEF Take, storeVars, providerVars, GatewayTypeOK, SenderStates,
     WorkExists, StoreTypeOK, ProviderTypeOK, ConsumerTypeOK, ReconcilerTypeOK
<1>2. ASSUME ProviderRefuses(g)
      PROVE  TypeInv'
  BY <1>2, <1>b DEF ProviderRefuses, storeVars, providerVars, WorkExists,
     StoreTypeOK, ProviderTypeOK, ConsumerTypeOK, ReconcilerTypeOK
<1>3. ASSUME ProviderAccepts(g)
      PROVE  TypeInv'
  <2>1. /\ gevent[g] \in DOMAIN outbox
        /\ Accept(gevent[g])
        /\ UNCHANGED storeVars
    BY <1>3 DEF ProviderAccepts, WorkExists
  <2>2. /\ ProviderTypeOK'
        /\ Len(frames') <= MaxFrames
        /\ DOMAIN frames \subseteq DOMAIN frames'
    BY <2>1, AcceptType, MaxFramesIsNat DEF WorkExists
  <2>3. GatewayTypeOK' /\ WorkExists'
    <3>1. CASE Return(g)
      BY <1>b, <2>1, <2>2, <3>1 DEF storeVars
    <3>2. CASE gpc' = [gpc EXCEPT ![g] = "acked"] /\ UNCHANGED gevent
      BY <2>1, <2>2, <3>2 DEF storeVars, GatewayTypeOK, SenderStates, WorkExists
    <3>3. QED
      BY <1>3, <3>1, <3>2 DEF ProviderAccepts
  <2>4. QED
    BY <2>1, <2>2, <2>3 DEF storeVars, StoreTypeOK, ConsumerTypeOK, ReconcilerTypeOK
<1>4. ASSUME RecordAck(g)
      PROVE  TypeInv'
  <2>1. EventOf(g).ticket \in Tickets
    BY <1>4, <1>a DEF RecordAck, WorkExists, EventOf, Event
  <2>2. StoreTypeOK'
    <3> DEFINE e == EventOf(g)
    <3>1. UNCHANGED <<recommendation, holder, seen, outbox>>
      BY <1>4 DEF RecordAck
    <3>2. \/ UNCHANGED <<status, aged>>
          \/ /\ status' = [status EXCEPT ![e.ticket] = AckTarget(e.type)]
             /\ aged' = [aged EXCEPT ![e.ticket] = FALSE]
      BY <1>4 DEF RecordAck, Touch
    <3>3. AckTarget(e.type) \in TicketStatus
      BY TargetsType
    <3> HIDE DEF e
    <3>4. status' \in [Tickets -> TicketStatus] /\ aged' \in [Tickets -> BOOLEAN]
      BY <2>1, <3>2, <3>3 DEF StoreTypeOK
    <3>5. QED
      BY <3>1, <3>4 DEF StoreTypeOK
  <2>3. QED
    BY <1>4, <1>b, <2>2 DEF RecordAck, providerVars, WorkExists, ProviderTypeOK,
       ConsumerTypeOK, ReconcilerTypeOK
<1>5. ASSUME FailSender(g)
      PROVE  TypeInv'
  BY <1>5, <1>b DEF FailSender, storeVars, providerVars, WorkExists,
     StoreTypeOK, ProviderTypeOK, ConsumerTypeOK, ReconcilerTypeOK
<1>6. QED
  BY <1>1, <1>2, <1>3, <1>4, <1>5 DEF GatewayStep

\* Every step of a reconciler: the batch and its cancellations.
LEMMA ReconcilerKeepsType ==
    ASSUME TypeInv, NEW r \in Reconcilers, ReconcilerStep(r),
           UNCHANGED <<providerVars, consumerVars, gatewayVars>>
    PROVE  TypeInv'
<1> USE DEF TypeInv, TypeOK, providerVars, consumerVars, gatewayVars
<1>a. r \in Sessions
  BY DEF Sessions
<1>b. ASSUME EndTick(r), UNCHANGED outbox
      PROVE  /\ ReconcilerTypeOK'
             /\ holder' \in [Tickets -> Sessions \cup {NoSession}]
             /\ seen' \in [Sessions -> [Tickets -> TicketStatus \cup {NotLoaded}]]
             /\ WorkExists'
  BY <1>a, <1>b, CloseType DEF EndTick, ReconcilerTypeOK, ReconcilerStates, WorkExists
<1>1. ASSUME NEW B \in SUBSET Tickets, FindStuck(r, B)
      PROVE  TypeInv'
  BY <1>1, <1>a DEF FindStuck, ReconcilerTypeOK, ReconcilerStates, StoreTypeOK,
     WorkExists, ProviderTypeOK, ConsumerTypeOK, GatewayTypeOK
<1>2. ASSUME NEW t \in Tickets, StartCancel(r, t)
      PROVE  TypeInv'
  BY <1>2, <1>a DEF StartCancel, ReconcilerTypeOK, ReconcilerStates, StoreTypeOK,
     WorkExists, ProviderTypeOK, ConsumerTypeOK, GatewayTypeOK
<1>3. ASSUME FinishCancel(r)
      PROVE  TypeInv'
  <2> DEFINE t == current[r]
  <2>1. t \in Tickets
    BY <1>3 DEF FinishCancel, WorkExists
  <2>2. /\ ChangeStatus(r, t, "cancellation_requested")
        /\ Touch(t)
        /\ Emit("REQUEST_CANCELLATION", t, 0)
        /\ UNCHANGED recommendation
    BY <1>3 DEF FinishCancel
  <2>3. /\ outbox' \in Seq(Event)
        /\ Len(outbox') <= MaxEvents
        /\ DOMAIN outbox \subseteq DOMAIN outbox'
    BY <2>1, <2>2, EmitType DEF OutboundTypes
  <2>4. status' \in [Tickets -> TicketStatus]
    BY <1>a, <2>1, <2>2, ChangeStatusType DEF TicketStatus
  <2>5. /\ ReconcilerTypeOK'
        /\ holder' \in [Tickets -> Sessions \cup {NoSession}]
        /\ seen' \in [Sessions -> [Tickets -> TicketStatus \cup {NotLoaded}]]
        /\ \A q \in Reconcilers :
               rpc'[q] = "cancel_calling" => current'[q] \in Tickets
    <3>1. CASE EndTick(r)
      BY <1>a, <3>1, CloseType
         DEF EndTick, ReconcilerTypeOK, ReconcilerStates, WorkExists
    <3>2. CASE ~EndTick(r)
      <4>1. /\ rpc' = [rpc EXCEPT ![r] = "next"]
            /\ batch' = [batch EXCEPT ![r] = batch[r] \ {t}]
            /\ current' = [current EXCEPT ![r] = NoTicket]
            /\ ReleaseLocks(r)
            /\ seen' = [seen EXCEPT ![r][t] = "cancellation_requested"]
        BY <1>3, <3>2 DEF FinishCancel
      <4>2. QED
        BY <1>a, <2>1, <4>1, CloseType
           DEF ReconcilerTypeOK, ReconcilerStates, WorkExists, StoreTypeOK, TicketStatus
    <3>3. QED
      BY <3>1, <3>2
  <2>6. QED
    BY <2>1, <2>2, <2>3, <2>4, <2>5 DEF Touch, StoreTypeOK, WorkExists,
       ProviderTypeOK, ConsumerTypeOK, GatewayTypeOK
<1>4. ASSUME AbortTick(r)
      PROVE  TypeInv'
  BY <1>4, <1>b DEF AbortTick, StoreTypeOK, ProviderTypeOK, ConsumerTypeOK,
     GatewayTypeOK
<1>5. QED
  BY <1>1, <1>2, <1>3, <1>4 DEF ReconcilerStep

\* create_ticket, and tickets that grow old.
LEMMA EnvironmentKeepsType ==
    ASSUME TypeInv, NEW t \in Tickets, CreateTicket(t) \/ GrowOld(t),
           UNCHANGED <<providerVars, consumerVars, gatewayVars, reconcilerVars>>
    PROVE  TypeInv'
<1> USE DEF TypeInv, TypeOK, providerVars, consumerVars, gatewayVars, reconcilerVars
<1>1. CASE CreateTicket(t)
  <2>1. /\ outbox' \in Seq(Event)
        /\ Len(outbox') <= MaxEvents
        /\ DOMAIN outbox \subseteq DOMAIN outbox'
    BY <1>1, EmitType DEF CreateTicket, OutboundTypes
  <2>2. QED
    BY <1>1, <2>1 DEF CreateTicket, StoreTypeOK, TicketStatus, WorkExists,
       ProviderTypeOK, ConsumerTypeOK, GatewayTypeOK, ReconcilerTypeOK
<1>2. CASE GrowOld(t)
  BY <1>2 DEF GrowOld, StoreTypeOK, WorkExists,
     ProviderTypeOK, ConsumerTypeOK, GatewayTypeOK, ReconcilerTypeOK
<1>3. QED
  BY <1>1, <1>2

\* TypeInv speaks of the variables of the ticket system only.
LEMMA StutterKeepsType ==
    ASSUME TypeInv, UNCHANGED vars
    PROVE  TypeInv'
BY DEF vars, storeVars, providerVars, consumerVars, gatewayVars, reconcilerVars,
   TypeInv, TypeOK, WorkExists, StoreTypeOK, ProviderTypeOK, ConsumerTypeOK,
   GatewayTypeOK, ReconcilerTypeOK

-----------------------------------------------------------------------------
\* The empty tables and the idle processes have their types.
LEMMA InitTypeInv == Init => TypeInv
BY MaxEventsIsNat, MaxFramesIsNat
   DEF Init, StoreInit, ProviderInit, ConsumerInit, GatewayInit, ReconcilerInit,
       TypeInv, TypeOK, WorkExists, StoreTypeOK, ProviderTypeOK, ConsumerTypeOK,
       GatewayTypeOK, ReconcilerTypeOK, TicketStatus, HandlerStates,
       SenderStates, ReconcilerStates

\* TypeInv is inductive: the processes put together.
LEMMA NextTypeInv == TypeInv /\ [Next]_vars => TypeInv'
BY ConsumerKeepsType, GatewayKeepsType, ReconcilerKeepsType,
   EnvironmentKeepsType, StutterKeepsType
   DEF Next, Create, TimePasses, Consume, Send, Reconcile

\* The variables keep their types and the work in hand exists: no handler or
\* sender ever works on a frame or an event that is not there.
THEOREM TypeCorrect == Spec => []TypeInv
BY InitTypeInv, NextTypeInv, PTL DEF Spec

\* Type correctness of every reachable state of the ticket system.
THEOREM TypeOKHolds == Spec => []TypeOK
BY TypeCorrect, PTL DEF TypeInv

-----------------------------------------------------------------------------
(* Tables only grow *)

\* Sequence s is continued by t.
Continues(t, s) ==
    DOMAIN s \subseteq DOMAIN t /\ \A i \in DOMAIN s : t[i] = s[i]

\* No step deletes or changes a row of the outbox, a frame of the provider, an
\* acknowledgement or a claim.
LEMMA TablesGrow ==
    ASSUME TypeInv, [Next]_vars
    PROVE  /\ Continues(outbox', outbox)
           /\ Continues(frames', frames)
           /\ accepted \subseteq accepted'
           /\ inbox \subseteq inbox'
<1> DEFINE Grown == /\ Continues(outbox', outbox)
                    /\ Continues(frames', frames)
                    /\ accepted \subseteq accepted'
                    /\ inbox \subseteq inbox'
<1>a. ASSUME NEW type, NEW t, NEW cause, Emit(type, t, cause)
      PROVE  Continues(outbox', outbox)
  BY <1>a DEF Emit, Continues, TypeInv, TypeOK, StoreTypeOK
<1>b. ASSUME UNCHANGED outbox
      PROVE  Continues(outbox', outbox)
  BY <1>b DEF Continues
<1>c. ASSUME UNCHANGED providerVars
      PROVE  Continues(frames', frames) /\ accepted \subseteq accepted'
  BY <1>c DEF Continues, providerVars
<1>1. ASSUME NEW h \in Handlers, ConsumerStep(h), UNCHANGED providerVars
      PROVE  Grown
  <2>1. inbox \subseteq inbox'
    BY <1>1 DEF ConsumerStep, Claim, InsertClaim, SkipDuplicate, consumerVars,
       IgnoreRecommendation, ApplyRecommendation, CommitClaim, MonolithSettles,
       MonolithFails, Settle, LockForCancel, CommitCancellation,
       ApplyCancellation, FailHandler
  <2>2. Continues(outbox', outbox)
    BY <1>1, <1>a, <1>b DEF ConsumerStep, Claim, SkipDuplicate, storeVars,
       IgnoreRecommendation, ApplyRecommendation, MonolithSettles,
       MonolithFails, Settle, LockForCancel, CommitCancellation,
       ApplyCancellation, FailHandler
  <2>3. QED
    BY <1>1, <1>c, <2>1, <2>2
<1>2. ASSUME NEW g \in Senders, GatewayStep(g), UNCHANGED inbox
      PROVE  Grown
  <2>1. UNCHANGED outbox
    BY <1>2 DEF GatewayStep, Take, ProviderRefuses, ProviderAccepts, RecordAck,
       FailSender, storeVars
  <2>2. Continues(frames', frames) /\ accepted \subseteq accepted'
    <3>1. CASE ProviderAccepts(g)
      BY <3>1, AcceptType, MaxFramesIsNat
         DEF ProviderAccepts, TypeInv, TypeOK, WorkExists, Accept, Continues
    <3>2. CASE ~ProviderAccepts(g)
      BY <1>2, <1>c, <3>2 DEF GatewayStep, Take, ProviderRefuses, RecordAck, FailSender
    <3>3. QED
      BY <3>1, <3>2
  <2>3. QED
    BY <1>2, <1>b, <2>1, <2>2
<1>3. ASSUME NEW r \in Reconcilers, ReconcilerStep(r), UNCHANGED <<providerVars, inbox>>
      PROVE  Grown
  BY <1>3, <1>a, <1>b, <1>c
     DEF ReconcilerStep, FindStuck, StartCancel, FinishCancel, AbortTick
<1>4. ASSUME NEW t \in Tickets, CreateTicket(t) \/ GrowOld(t),
             UNCHANGED <<providerVars, inbox>>
      PROVE  Grown
  BY <1>4, <1>a, <1>b, <1>c DEF CreateTicket, GrowOld
<1>5. CASE UNCHANGED vars
  BY <1>5, <1>b, <1>c DEF vars, storeVars, consumerVars
<1>6. QED
  BY <1>1, <1>2, <1>3, <1>4, <1>5
     DEF Next, Create, TimePasses, Consume, Send, Reconcile, consumerVars

-----------------------------------------------------------------------------
(* What one step adds to the tables *)

\* The events after an Emit are the old ones and the one it writes.
LEMMA NewEvent ==
    ASSUME TypeInv, NEW type \in OutboundTypes, NEW t \in Tickets,
           NEW cause \in Nat, Emit(type, t, cause)
    PROVE  /\ \A d \in DOMAIN outbox' :
                  \/ d \in DOMAIN outbox /\ outbox'[d] = outbox[d]
                  \/ /\ d \notin DOMAIN outbox
                     /\ outbox'[d] = [type |-> type, ticket |-> t, cause |-> cause]
           /\ \E d \in DOMAIN outbox' :
                  outbox'[d] = [type |-> type, ticket |-> t, cause |-> cause]
<1>1. StoreTypeOK
  BY DEF TypeInv, TypeOK
<1>2. outbox'[Len(outbox) + 1] = [type |-> type, ticket |-> t, cause |-> cause]
  BY <1>1, EmitType
<1>3. /\ DOMAIN outbox' = DOMAIN outbox \cup {Len(outbox) + 1}
      /\ \A e \in DOMAIN outbox : outbox'[e] = outbox[e]
  BY <1>1, EmitType
<1>4. Len(outbox) + 1 \notin DOMAIN outbox
  BY <1>1 DEF StoreTypeOK
<1>5. QED
  BY <1>2, <1>3, <1>4

\* The frames after an acknowledgement are the old ones and perhaps an answer.
LEMMA NewFrame ==
    ASSUME TypeInv, NEW e \in DOMAIN outbox, Accept(e)
    PROVE  /\ accepted' = accepted \cup {e}
           /\ \A f \in DOMAIN frames' :
                  \/ f \in DOMAIN frames /\ frames'[f] = frames[f]
                  \/ f \notin DOMAIN frames /\ frames'[f] \in Answers(outbox[e])
<1>1. frames \in Seq(Frame)
  BY DEF TypeInv, TypeOK, ProviderTypeOK
<1>2. CASE UNCHANGED frames
  BY <1>2 DEF Accept
<1>3. CASE ~UNCHANGED frames
  <2>1. PICK a \in Answers(outbox[e]) : frames' = Append(frames, a)
    BY <1>3 DEF Accept
  <2>2. /\ DOMAIN frames' = DOMAIN frames \cup {Len(frames) + 1}
        /\ frames'[Len(frames) + 1] = a
        /\ \A f \in DOMAIN frames : frames'[f] = frames[f]
        /\ Len(frames) + 1 \notin DOMAIN frames
    BY <1>1, <2>1
  <2>3. QED
    BY <2>1, <2>2 DEF Accept
<1>4. QED
  BY <1>2, <1>3

\* What the provider answers.
LEMMA AnswersAre ==
    ASSUME NEW m \in Event, NEW a \in Answers(m)
    PROVE  /\ a.ticket = m.ticket
           /\ IF a.type = "RECOMMENDATION"
                THEN a.action \in RecommendationAction
                ELSE m.type = "REQUEST_CANCELLATION"
BY DEF Answers, Event

\* Claims are of frames that were sent, acknowledgements of events that were
\* written.
IndicesExist == inbox \subseteq DOMAIN frames /\ accepted \subseteq DOMAIN outbox

\* Nothing is claimed or acknowledged at the start.
LEMMA InitIndicesExist == Init => IndicesExist
BY DEF Init, ProviderInit, ConsumerInit, IndicesExist

\* A claim that becomes durable is of the frame in hand, and an acknowledged
\* event is the one in hand.
LEMMA NextIndicesExist ==
    ASSUME TypeInv, IndicesExist, [Next]_vars
    PROVE  /\ IndicesExist'
           /\ inbox' \subseteq DOMAIN frames
<1>1. ASSUME NEW h \in Handlers, ConsumerStep(h)
      PROVE  inbox' \subseteq DOMAIN frames
  <2>1. inbox' = inbox \/ (cpc[h] # "idle" /\ inbox' = inbox \cup {cframe[h]})
    BY <1>1 DEF ConsumerStep, Claim, InsertClaim, SkipDuplicate, consumerVars,
       IgnoreRecommendation, ApplyRecommendation, CommitClaim, MonolithSettles,
       MonolithFails, Settle, LockForCancel, CommitCancellation,
       ApplyCancellation, FailHandler, At
  <2>2. QED
    BY <2>1 DEF TypeInv, WorkExists, IndicesExist
<1>2. inbox' \subseteq DOMAIN frames
  BY <1>1 DEF Next, Create, TimePasses, Consume, Send, Reconcile, consumerVars,
     vars, IndicesExist
<1>3. ASSUME NEW g \in Senders, GatewayStep(g)
      PROVE  accepted' \subseteq DOMAIN outbox
  BY <1>3 DEF GatewayStep, Take, ProviderRefuses, ProviderAccepts, Accept,
     RecordAck, FailSender, providerVars, TypeInv, WorkExists, IndicesExist
<1>4. accepted' \subseteq DOMAIN outbox
  BY <1>3 DEF Next, Create, TimePasses, Consume, Send, Reconcile, providerVars,
     vars, IndicesExist
<1>5. QED
  BY <1>2, <1>4, TablesGrow DEF IndicesExist, Continues

-----------------------------------------------------------------------------
(* Who changes a status *)

\* The commits that may give ticket t another status, each with the status it
\* gives.
RowMove(t) ==
    \/ CreateTicket(t) /\ status'[t] = "new"
    \/ \E h \in Handlers :
           /\ cpc[h] # "idle"
           /\ TicketOf(h) = t
           /\ \/ ApplyRecommendation(h) /\ status'[t] = Recommended(ActionOf(h))
              \/ Settle(h) /\ status'[t] = "settled" /\ ~Terminal(Loaded(h, t))
              \/ CommitCancellation(h) /\ status'[t] = "cancellation_requested"
              \/ ApplyCancellation(h) /\ status'[t] = "cancelled" /\ CommitClaim(cframe[h])
    \/ \E g \in Senders :
           /\ RecordAck(g)
           /\ EventOf(g).ticket = t
           /\ AckApplies(EventOf(g).type, status[t])
           /\ status'[t] = AckTarget(EventOf(g).type)
    \/ \E r \in Reconcilers :
           FinishCancel(r) /\ current[r] = t /\ status'[t] = "cancellation_requested"

\* No other step of the system writes the status column of t.
LEMMA OnlyRowMoves ==
    ASSUME TypeInv, [Next]_vars, NEW t \in Tickets, status'[t] # status[t]
    PROVE  RowMove(t)
<1>a. status \in [Tickets -> TicketStatus]
  BY DEF TypeInv, TypeOK, StoreTypeOK
<1>b. ASSUME NEW s, NEW x \in Tickets, NEW to, ChangeStatus(s, x, to)
      PROVE  x = t /\ status'[t] = to
  BY <1>a, <1>b DEF ChangeStatus
<1>1. ASSUME NEW h \in Handlers, ConsumerStep(h)
      PROVE  RowMove(t)
  <2>1. cpc[h] # "idle" /\ TicketOf(h) \in Tickets
    <3>1. cpc[h] # "idle"
      BY <1>1 DEF ConsumerStep, Claim, SkipDuplicate, storeVars, At,
         IgnoreRecommendation, ApplyRecommendation, MonolithSettles,
         MonolithFails, Settle, LockForCancel, CommitCancellation,
         ApplyCancellation, FailHandler
    <3>2. QED
      BY <3>1, IndexBounds DEF TypeInv, WorkExists, TicketOf, Frame
  <2>2. \/ ApplyRecommendation(h) \/ Settle(h)
        \/ CommitCancellation(h) \/ ApplyCancellation(h)
    BY <1>1 DEF ConsumerStep, Claim, SkipDuplicate, storeVars,
       IgnoreRecommendation, MonolithSettles, MonolithFails, LockForCancel, FailHandler
  <2>3. CASE ApplyRecommendation(h)
    BY <1>b, <2>1, <2>3 DEF ApplyRecommendation, RowMove
  <2>4. CASE Settle(h)
    <3>1. ChangeStatus(h, TicketOf(h), "settled") /\ ~Terminal(Loaded(h, TicketOf(h)))
      BY <2>4 DEF Settle
    <3>2. QED
      BY <1>b, <2>1, <2>4, <3>1 DEF RowMove
  <2>5. CASE CommitCancellation(h)
    BY <1>b, <2>1, <2>5 DEF CommitCancellation, RowMove
  <2>6. CASE ApplyCancellation(h)
    <3>1. ChangeStatus(h, TicketOf(h), "cancelled") /\ CommitClaim(cframe[h])
      BY <2>6 DEF ApplyCancellation
    <3>2. QED
      BY <1>b, <2>1, <2>6, <3>1 DEF RowMove
  <2>7. QED
    BY <2>2, <2>3, <2>4, <2>5, <2>6
<1>2. ASSUME NEW g \in Senders, GatewayStep(g)
      PROVE  RowMove(t)
  <2>1. RecordAck(g)
    BY <1>2 DEF GatewayStep, Take, ProviderRefuses, ProviderAccepts, FailSender, storeVars
  <2>2. EventOf(g).ticket \in Tickets
    BY <2>1, IndexBounds DEF TypeInv, WorkExists, RecordAck, EventOf, Event
  <2> DEFINE e == EventOf(g)
  <2>3. /\ AckApplies(e.type, status[e.ticket])
        /\ status' = [status EXCEPT ![e.ticket] = AckTarget(e.type)]
    BY <2>1 DEF RecordAck
  <2>4. e.ticket = t /\ status'[t] = AckTarget(e.type)
    <3> HIDE DEF e
    <3>1. QED
      BY <1>a, <2>2, <2>3
  <2>5. QED
    BY <2>1, <2>3, <2>4 DEF RowMove
<1>3. ASSUME NEW r \in Reconcilers, ReconcilerStep(r)
      PROVE  RowMove(t)
  <2>1. FinishCancel(r)
    BY <1>3 DEF ReconcilerStep, FindStuck, StartCancel, AbortTick
  <2>2. current[r] \in Tickets /\ ChangeStatus(r, current[r], "cancellation_requested")
    BY <2>1 DEF FinishCancel, TypeInv, WorkExists
  <2>3. QED
    BY <1>b, <2>1, <2>2 DEF RowMove
<1>4. ASSUME NEW x \in Tickets, CreateTicket(x) \/ GrowOld(x)
      PROVE  RowMove(t)
  <2>1. CreateTicket(x) /\ x = t /\ status'[t] = "new"
    BY <1>4, <1>a DEF CreateTicket, GrowOld
  <2>2. QED
    BY <2>1 DEF RowMove
<1>5. QED
  BY <1>1, <1>2, <1>3, <1>4
     DEF Next, Create, TimePasses, Consume, Send, Reconcile, vars, storeVars

-----------------------------------------------------------------------------
(* Rows exist *)

\* Events, frames and batches are about tickets that have been created, and a
\* reconciler works on a ticket of its batch.
RowsExist ==
    /\ \A e \in DOMAIN outbox : status[outbox[e].ticket] # "absent"
    /\ \A f \in DOMAIN frames : status[frames[f].ticket] # "absent"
    /\ \A r \in Reconcilers : \A t \in batch[r] : status[t] # "absent"
    /\ \A r \in Reconcilers : rpc[r] = "cancel_calling" => current[r] \in batch[r]

\* Nothing deletes a ticket.
LEMMA NoRowVanishes ==
    ASSUME TypeInv, [Next]_vars, NEW t \in Tickets, status[t] # "absent"
    PROVE  status'[t] # "absent"
BY OnlyRowMoves
   DEF RowMove, Recommended, AckTarget, Decided

\* No event and no frame is there that would need a ticket.
LEMMA InitRowsExist == Init => RowsExist
BY DEF Init, StoreInit, ProviderInit, ReconcilerInit, RowsExist

\* An event or a frame is about the ticket of the step that writes it, and that
\* ticket is in hand already, or created with it.
LEMMA NextRowsExist == TypeInv /\ RowsExist /\ [Next]_vars => RowsExist'
<1> SUFFICES ASSUME TypeInv, RowsExist, [Next]_vars
             PROVE  RowsExist'
  OBVIOUS
<1>a. /\ \A e \in DOMAIN outbox : outbox[e].ticket \in Tickets
      /\ \A f \in DOMAIN frames : frames[f].ticket \in Tickets
      /\ \A r \in Reconcilers : batch[r] \subseteq Tickets
  BY IndexBounds DEF TypeInv, TypeOK, ReconcilerTypeOK, Event, Frame
<1>b. /\ \A e \in DOMAIN outbox : status'[outbox[e].ticket] # "absent"
      /\ \A f \in DOMAIN frames : status'[frames[f].ticket] # "absent"
      /\ \A r \in Reconcilers : \A t \in batch[r] : status'[t] # "absent"
  BY <1>a, NoRowVanishes DEF RowsExist
<1>c. ASSUME NEW type \in OutboundTypes, NEW t \in Tickets, NEW cause \in Nat,
             Emit(type, t, cause), status'[t] # "absent"
      PROVE  \A e \in DOMAIN outbox' : status'[outbox'[e].ticket] # "absent"
  <2>1. StoreTypeOK
    BY DEF TypeInv, TypeOK
  <2>2. outbox'[Len(outbox) + 1] = [type |-> type, ticket |-> t, cause |-> cause]
    BY <1>c, <2>1, EmitType
  <2>3. /\ DOMAIN outbox' = DOMAIN outbox \cup {Len(outbox) + 1}
        /\ \A e \in DOMAIN outbox : outbox'[e] = outbox[e]
    BY <1>c, <2>1, EmitType
  <2>4. outbox'[Len(outbox) + 1].ticket = t
    BY <2>2
  <2>5. QED
    BY <1>b, <1>c, <2>3, <2>4
<1>1. ASSUME NEW h \in Handlers, ConsumerStep(h),
             UNCHANGED <<providerVars, gatewayVars, reconcilerVars>>
      PROVE  RowsExist'
  <2>1. UNCHANGED outbox => RowsExist'
    BY <1>1, <1>b DEF RowsExist, providerVars, reconcilerVars
  <2>2. ASSUME Settle(h) \/ CommitCancellation(h), outbox' # outbox
        PROVE  RowsExist'
    <3>1. /\ TicketOf(h) \in Tickets /\ cframe[h] \in Nat
          /\ status'[TicketOf(h)] # "absent"
      BY <2>2, <1>a, <1>b, MaxFramesIsNat
         DEF Settle, CommitCancellation, At, TypeInv, TypeOK, WorkExists,
             ConsumerTypeOK, TicketOf
    <3>2. PICK type \in OutboundTypes : Emit(type, TicketOf(h), cframe[h])
      BY <2>2, TargetsType DEF Settle, CommitCancellation, OutboundTypes
    <3>3. QED
      BY <1>1, <1>b, <1>c, <3>1, <3>2 DEF RowsExist, providerVars, reconcilerVars
  <2>3. QED
    BY <1>1, <2>1, <2>2 DEF ConsumerStep, Claim, SkipDuplicate, storeVars,
       IgnoreRecommendation, ApplyRecommendation, MonolithSettles,
       MonolithFails, LockForCancel, ApplyCancellation, FailHandler
<1>2. ASSUME NEW g \in Senders, GatewayStep(g),
             UNCHANGED <<consumerVars, reconcilerVars>>
      PROVE  RowsExist'
  <2>1. UNCHANGED outbox
    BY <1>2 DEF GatewayStep, Take, ProviderRefuses, ProviderAccepts, RecordAck,
       FailSender, storeVars
  <2>2. UNCHANGED frames => RowsExist'
    BY <1>2, <1>b, <2>1 DEF RowsExist, reconcilerVars
  <2>3. ASSUME ProviderAccepts(g), frames' # frames
        PROVE  RowsExist'
    <3> DEFINE e == gevent[g]
    <3>1. e \in DOMAIN outbox /\ Accept(e)
      BY <2>3 DEF ProviderAccepts, TypeInv, WorkExists
    <3>2. PICK a \in Answers(outbox[e]) : frames' = Append(frames, a)
      BY <2>3, <3>1 DEF Accept
    <3>3. a.ticket = outbox[e].ticket
      BY <3>2 DEF Answers
    <3>4. /\ DOMAIN frames' = DOMAIN frames \cup {Len(frames) + 1}
          /\ frames'[Len(frames) + 1] = a
          /\ \A f \in DOMAIN frames : frames'[f] = frames[f]
      BY <3>2 DEF TypeInv, TypeOK, ProviderTypeOK
    <3>5. QED
      BY <1>2, <1>b, <2>1, <3>1, <3>3, <3>4 DEF RowsExist, reconcilerVars
  <2>4. QED
    BY <1>2, <2>2, <2>3 DEF GatewayStep, Take, ProviderRefuses, RecordAck,
       FailSender, providerVars
<1>3. ASSUME NEW r \in Reconcilers, ReconcilerStep(r),
             UNCHANGED <<providerVars, consumerVars, gatewayVars>>
      PROVE  RowsExist'
  <2>a. /\ batch \in [Reconcilers -> SUBSET Tickets]
        /\ rpc \in [Reconcilers -> ReconcilerStates]
        /\ current \in [Reconcilers -> Tickets \cup {NoTicket}]
    BY DEF TypeInv, TypeOK, ReconcilerTypeOK
  <2>1. ASSUME NEW B \in SUBSET Tickets, FindStuck(r, B)
        PROVE  RowsExist'
    BY <1>3, <1>b, <2>1, <2>a DEF FindStuck, Stuck, RowsExist, providerVars
  <2>2. ASSUME NEW t \in Tickets, StartCancel(r, t)
        PROVE  RowsExist'
    BY <1>3, <1>b, <2>2, <2>a DEF StartCancel, RowsExist, providerVars
  <2>3. CASE FinishCancel(r)
    <3> DEFINE t == current[r]
    <3>1. t \in Tickets /\ t \in batch[r] /\ Emit("REQUEST_CANCELLATION", t, 0)
      BY <2>3 DEF FinishCancel, TypeInv, WorkExists, RowsExist
    <3>2. /\ \A q \in Reconcilers : batch'[q] \subseteq batch[q]
          /\ rpc'[r] # "cancel_calling"
          /\ \A q \in Reconcilers \ {r} :
                 rpc'[q] = rpc[q] /\ current'[q] = current[q] /\ batch'[q] = batch[q]
      BY <2>3, <2>a DEF FinishCancel, EndTick
    <3>3. status'[t] # "absent"
      BY <1>b, <3>1
    <3>4. \A e \in DOMAIN outbox' : status'[outbox'[e].ticket] # "absent"
      BY <1>c, <3>1, <3>3 DEF OutboundTypes
    <3> HIDE DEF t
    <3>5. QED
      BY <1>3, <1>b, <3>2, <3>4 DEF RowsExist, providerVars
  <2>4. CASE AbortTick(r)
    BY <1>3, <1>b, <2>4, <2>a DEF AbortTick, EndTick, RowsExist, providerVars
  <2>5. QED
    BY <1>3, <2>1, <2>2, <2>3, <2>4 DEF ReconcilerStep
<1>4. ASSUME NEW t \in Tickets, CreateTicket(t) \/ GrowOld(t),
             UNCHANGED <<providerVars, reconcilerVars>>
      PROVE  RowsExist'
  <2>1. CASE CreateTicket(t)
    <3>1. status'[t] # "absent" /\ Emit("TICKET", t, 0)
      BY <2>1 DEF CreateTicket, TypeInv, TypeOK, StoreTypeOK
    <3>2. QED
      BY <1>4, <1>b, <1>c, <3>1 DEF RowsExist, providerVars, reconcilerVars, OutboundTypes
  <2>2. CASE GrowOld(t)
    BY <1>4, <1>b, <2>2 DEF GrowOld, RowsExist, providerVars, reconcilerVars
  <2>3. QED
    BY <1>4, <2>1, <2>2
<1>5. CASE UNCHANGED vars
  BY <1>5 DEF vars, storeVars, providerVars, reconcilerVars, RowsExist
<1>6. QED
  BY <1>1, <1>2, <1>3, <1>4, <1>5 DEF Next, Create, TimePasses, Consume, Send, Reconcile

-----------------------------------------------------------------------------
(* The outbox pattern *)

\* No ticket is there that would need an event.
LEMMA InitTransactionalOutbox == Init => TransactionalOutbox
BY DEF Init, StoreInit, TransactionalOutbox

\* An event that is there stays there; one that a status needs is written by
\* the commit that gives the status.
LEMMA NextTransactionalOutbox ==
    TypeInv /\ RowsExist /\ TransactionalOutbox /\ [Next]_vars => TransactionalOutbox'
<1> SUFFICES ASSUME TypeInv, RowsExist, TransactionalOutbox, [Next]_vars,
                    NEW t \in Tickets
             PROVE  /\ status'[t] # "absent" => HasEvent(t, {"TICKET"})'
                    /\ status'[t] = "settled" => HasEvent(t, AckTypes)'
                    /\ status'[t] = "cancellation_requested" =>
                           HasEvent(t, {"REQUEST_CANCELLATION"})'
  BY DEF TransactionalOutbox
<1>1. ASSUME NEW types, HasEvent(t, types)
      PROVE  HasEvent(t, types)'
  BY <1>1, TablesGrow DEF HasEvent, Continues
<1>2. ASSUME NEW type \in OutboundTypes, NEW cause \in Nat, Emit(type, t, cause),
             NEW types, type \in types
      PROVE  HasEvent(t, types)'
  <2>1. StoreTypeOK
    BY DEF TypeInv, TypeOK
  <2>2. outbox'[Len(outbox) + 1] = [type |-> type, ticket |-> t, cause |-> cause]
    BY <1>2, <2>1, EmitType
  <2>3. Len(outbox) + 1 \in DOMAIN outbox'
    BY <1>2, <2>1, EmitType
  <2>4. QED
    BY <1>2, <2>2, <2>3 DEF HasEvent
<1>3. CASE status'[t] = status[t]
  BY <1>1, <1>3 DEF TransactionalOutbox
<1>4. CASE status'[t] # status[t]
  <2>1. RowMove(t)
    BY <1>4, OnlyRowMoves
  <2>2. CASE CreateTicket(t)
    BY <1>2, <2>1, <2>2 DEF CreateTicket, OutboundTypes, TypeInv, TypeOK, StoreTypeOK
  <2>3. ASSUME NEW h \in Handlers, cpc[h] # "idle", TicketOf(h) = t
        PROVE  /\ status[t] # "absent" /\ HasEvent(t, {"TICKET"})'
               /\ cframe[h] \in Nat
    <3>1. cframe[h] \in DOMAIN frames
      BY <2>3 DEF TypeInv, WorkExists
    <3>2. status[t] # "absent" /\ HasEvent(t, {"TICKET"})
      BY <2>3, <3>1 DEF RowsExist, TicketOf, TransactionalOutbox
    <3>3. QED
      BY <1>1, <3>1, <3>2, IndexBounds, MaxFramesIsNat
  <2>4. ASSUME NEW h \in Handlers, cpc[h] # "idle", TicketOf(h) = t,
               \/ ApplyRecommendation(h) /\ status'[t] = Recommended(ActionOf(h))
               \/ ApplyCancellation(h) /\ status'[t] = "cancelled"
        PROVE  /\ HasEvent(t, {"TICKET"})'
               /\ status'[t] \notin {"settled", "cancellation_requested"}
    BY <2>3, <2>4 DEF Recommended
  <2>5. ASSUME NEW h \in Handlers, cpc[h] # "idle", TicketOf(h) = t,
               Settle(h), status'[t] = "settled", ~Terminal(Loaded(h, t))
        PROVE  HasEvent(t, {"TICKET"})' /\ HasEvent(t, AckTypes)'
    <3>1. Emit(AckType(ActionOf(h)), t, cframe[h])
      BY <2>5 DEF Settle
    <3>2. AckType(ActionOf(h)) \in AckTypes /\ AckType(ActionOf(h)) \in OutboundTypes
      BY TargetsType DEF AckType, AckTypes
    <3>3. QED
      BY <1>2, <2>3, <2>5, <3>1, <3>2
  <2>6. ASSUME NEW h \in Handlers, cpc[h] # "idle", TicketOf(h) = t, CommitCancellation(h)
        PROVE  HasEvent(t, {"TICKET"})' /\ HasEvent(t, {"REQUEST_CANCELLATION"})'
    <3>1. Emit("REQUEST_CANCELLATION", t, cframe[h])
      BY <2>6 DEF CommitCancellation
    <3>2. QED
      BY <1>2, <2>3, <2>6, <3>1 DEF OutboundTypes
  <2>7. ASSUME NEW g \in Senders, RecordAck(g), EventOf(g).ticket = t,
               status'[t] = AckTarget(EventOf(g).type)
        PROVE  /\ HasEvent(t, {"TICKET"})'
               /\ status'[t] \notin {"settled", "cancellation_requested"}
    <3>1. gevent[g] \in DOMAIN outbox
      BY <2>7 DEF RecordAck, TypeInv, WorkExists
    <3>2. status[t] # "absent"
      BY <2>7, <3>1 DEF RowsExist, EventOf
    <3>3. QED
      BY <1>1, <2>7, <3>2 DEF TransactionalOutbox, AckTarget, Decided
  <2>8. ASSUME NEW r \in Reconcilers, FinishCancel(r), current[r] = t
        PROVE  HasEvent(t, {"TICKET"})' /\ HasEvent(t, {"REQUEST_CANCELLATION"})'
    <3>1. Emit("REQUEST_CANCELLATION", t, 0) /\ status[t] # "absent"
      BY <2>8 DEF FinishCancel, RowsExist
    <3>2. QED
      BY <1>1, <1>2, <2>8, <3>1 DEF TransactionalOutbox, OutboundTypes
  <2>9. CASE \E h \in Handlers :
                 /\ cpc[h] # "idle"
                 /\ TicketOf(h) = t
                 /\ \/ ApplyRecommendation(h) /\ status'[t] = Recommended(ActionOf(h))
                    \/ Settle(h) /\ status'[t] = "settled" /\ ~Terminal(Loaded(h, t))
                    \/ CommitCancellation(h) /\ status'[t] = "cancellation_requested"
                    \/ ApplyCancellation(h) /\ status'[t] = "cancelled"
    BY <2>4, <2>5, <2>6, <2>9
  <2>10. QED
    BY <2>1, <2>2, <2>7, <2>8, <2>9 DEF RowMove
<1>5. QED
  BY <1>3, <1>4

\* A ticket is never left in a status the provider must hear about without the
\* event that tells it, whatever process set the status.
THEOREM OutboxPattern == Spec => []TransactionalOutbox
<1>1. TypeInv /\ RowsExist /\ TransactionalOutbox /\ [Next]_vars =>
          (TypeInv /\ RowsExist /\ TransactionalOutbox)'
  BY NextTypeInv, NextRowsExist, NextTransactionalOutbox
<1>2. QED
  BY InitTypeInv, InitRowsExist, InitTransactionalOutbox, <1>1, PTL DEF Spec

-----------------------------------------------------------------------------
(* Row locks *)

\* LocksMatchWork, and that a reconciler between two ticks has no batch: it is
\* what keeps the locks of find_stuck within the batch it returns.
LockInv ==
    /\ LocksMatchWork
    /\ \A r \in Reconcilers : rpc[r] = "idle" => batch[r] = {}

lockVars == <<holder, cpc, cframe, rpc, batch, current>>

\* The tickets of the frames in hand do not change.
LEMMA TicketOfIsStable ==
    ASSUME TypeInv, [Next]_vars, NEW h \in Handlers, cpc[h] # "idle",
           cframe'[h] = cframe[h]
    PROVE  TicketOf(h)' = TicketOf(h)
BY TablesGrow DEF TypeInv, WorkExists, TicketOf, Continues

\* No row is locked and no handler at work at the start.
LEMMA InitLockInv == Init => LockInv
BY SessionsAreDistinct
   DEF Init, StoreInit, ConsumerInit, ReconcilerInit, LockInv, LocksMatchWork,
       Sessions, At

\* A step that touches no lock and no work in hand.
LEMMA LockInvStutter ==
    ASSUME TypeInv, LockInv, [Next]_vars, UNCHANGED lockVars
    PROVE  LockInv'
<1>1. \A h \in Handlers : cpc[h] # "idle" => TicketOf(h)' = TicketOf(h)
  BY TicketOfIsStable DEF lockVars
<1>2. QED
  BY <1>1 DEF LockInv, LocksMatchWork, lockVars, At

\* A handler takes the row lock before its request_cancellation calls the
\* monolith, and gives it back when it ends.
LEMMA ConsumerKeepsLockInv ==
    ASSUME TypeInv, LockInv, [Next]_vars, NEW h \in Handlers, ConsumerStep(h),
           UNCHANGED reconcilerVars
    PROVE  LockInv'
<1> USE DEF At
<1>a. /\ cpc \in [Handlers -> HandlerStates]
      /\ cframe \in [Handlers -> 0..MaxFrames]
      /\ holder \in [Tickets -> Sessions \cup {NoSession}]
  BY DEF TypeInv, TypeOK, ConsumerTypeOK, StoreTypeOK
<1>b. /\ h \notin Senders /\ h \notin Reconcilers /\ h # NoSession
      /\ \A r \in Reconcilers : r \notin Handlers /\ r # NoSession
  BY SessionsAreDistinct DEF Sessions
<1>c. \A k \in Handlers \ {h} :
          /\ cpc'[k] = cpc[k]
          /\ cpc[k] # "idle" => TicketOf(k)' = TicketOf(k)
  <2>1. \A k \in Handlers \ {h} : cpc'[k] = cpc[k] /\ cframe'[k] = cframe[k]
    BY <1>a DEF ConsumerStep, Claim, SkipDuplicate, consumerVars, GoTo, Finish,
       IgnoreRecommendation, ApplyRecommendation, MonolithSettles,
       MonolithFails, Settle, LockForCancel, CommitCancellation,
       ApplyCancellation, FailHandler
  <2>2. QED
    BY <2>1, TicketOfIsStable
<1>1. CASE Finish(h)
  <2>1. /\ holder' = [t \in Tickets |-> IF holder[t] = h THEN NoSession ELSE holder[t]]
        /\ cpc'[h] = "idle"
    BY <1>1, <1>a DEF Finish, ReleaseLocks
  <2>2. QED
    BY <1>b, <1>c, <2>1, SessionsAreDistinct
       DEF LockInv, LocksMatchWork, reconcilerVars, Sessions
<1>2. CASE LockForCancel(h)
  <2> DEFINE t == TicketOf(h)
  <2>1. /\ cpc[h] = "cancelling" /\ t \in Tickets
        /\ holder[t] \in {NoSession, h}
        /\ holder' = [holder EXCEPT ![t] = h]
        /\ cpc'[h] = "cancel_calling" /\ cframe' = cframe
    BY <1>2, <1>a, IndexBounds
       DEF LockForCancel, Lockable, GoTo, TypeInv, WorkExists, TicketOf, Frame
  <2>2. TicketOf(h)' = t
    BY <2>1, TicketOfIsStable
  <2>3. holder[t] = NoSession /\ \A x \in Tickets : holder[x] # h
    BY <2>1 DEF LockInv, LocksMatchWork
  <2> HIDE DEF t
  <2>4. QED
    BY <1>a, <1>b, <1>c, <2>1, <2>2, <2>3, SessionsAreDistinct
       DEF LockInv, LocksMatchWork, reconcilerVars, Sessions
<1>3. CASE ~Finish(h) /\ ~LockForCancel(h)
  <2>1. UNCHANGED holder /\ cpc[h] # "cancel_calling" /\ cpc'[h] # "cancel_calling"
    BY <1>3, <1>a DEF ConsumerStep, Claim, SkipDuplicate, GoTo, storeVars,
       consumerVars, IgnoreRecommendation, ApplyRecommendation,
       MonolithSettles, MonolithFails, Settle, CommitCancellation,
       ApplyCancellation, FailHandler
  <2>2. QED
    BY <1>c, <2>1 DEF LockInv, LocksMatchWork, reconcilerVars
<1>4. QED
  BY <1>1, <1>2, <1>3

\* find_stuck locks its batch; every commit and every end of a tick releases
\* all the locks of the session.
LEMMA ReconcilerKeepsLockInv ==
    ASSUME TypeInv, LockInv, [Next]_vars, NEW r \in Reconcilers, ReconcilerStep(r),
           UNCHANGED consumerVars
    PROVE  LockInv'
<1>a. /\ rpc \in [Reconcilers -> ReconcilerStates]
      /\ batch \in [Reconcilers -> SUBSET Tickets]
      /\ current \in [Reconcilers -> Tickets \cup {NoTicket}]
      /\ holder \in [Tickets -> Sessions \cup {NoSession}]
  BY DEF TypeInv, TypeOK, ReconcilerTypeOK, StoreTypeOK
<1>b. /\ r \notin Senders /\ r \notin Handlers /\ r # NoSession
      /\ NoSession \notin Senders /\ NoSession \notin Handlers
      /\ NoSession \notin Reconcilers /\ NoTicket \notin Tickets
  BY SessionsAreDistinct DEF Sessions
<1>c. \A h \in Handlers :
          /\ cpc'[h] = cpc[h]
          /\ cpc[h] # "idle" => TicketOf(h)' = TicketOf(h)
  BY TicketOfIsStable DEF consumerVars
<1>1. ASSUME NEW B \in SUBSET Tickets, FindStuck(r, B)
      PROVE  LockInv'
  <2>1. /\ \A t \in B : holder[t] = NoSession
        /\ \A t \in Tickets : holder[t] # r
        /\ \A t \in Tickets : holder'[t] = IF t \in B THEN r ELSE holder[t]
        /\ batch' = [batch EXCEPT ![r] = B] /\ UNCHANGED current
        /\ rpc' = [rpc EXCEPT ![r] = "next"]
    BY <1>1 DEF FindStuck, Stuck, LockInv, LocksMatchWork
  <2>2. \A t \in Tickets :
            /\ holder'[t] \notin Senders
            /\ \A h \in Handlers :
                   holder'[t] = h <=> cpc'[h] = "cancel_calling" /\ TicketOf(h)' = t
    BY <1>b, <1>c, <2>1 DEF LockInv, LocksMatchWork, At
  <2>3. \A t \in Tickets, q \in Reconcilers :
            /\ holder'[t] = q => t \in batch'[q]
            /\ current'[q] = t => holder'[t] = q
    BY <1>a, <1>b, <2>1 DEF LockInv, LocksMatchWork
  <2>4. QED
    BY <1>a, <2>1, <2>2, <2>3 DEF LockInv, LocksMatchWork, At
<1>2. ASSUME NEW t \in Tickets, StartCancel(r, t)
      PROVE  LockInv'
  <2>1. /\ holder[t] \in {NoSession, r} /\ t \in batch[r]
        /\ holder' = [holder EXCEPT ![t] = r]
        /\ current' = [current EXCEPT ![r] = t]
        /\ rpc' = [rpc EXCEPT ![r] = "cancel_calling"]
        /\ UNCHANGED batch
    BY <1>2 DEF StartCancel, Lockable
  <2>2. \A x \in Tickets :
            /\ holder'[x] \notin Senders
            /\ \A h \in Handlers :
                   holder'[x] = h <=> cpc'[h] = "cancel_calling" /\ TicketOf(h)' = x
    BY <1>a, <1>b, <1>c, <2>1 DEF LockInv, LocksMatchWork, At
  <2>3. \A x \in Tickets, q \in Reconcilers :
            /\ holder'[x] = q => x \in batch'[q]
            /\ current'[q] = x => holder'[x] = q
    BY <1>a, <1>b, <2>1 DEF LockInv, LocksMatchWork
  <2>4. QED
    BY <1>a, <2>1, <2>2, <2>3 DEF LockInv, LocksMatchWork, At
<1>3. CASE FinishCancel(r) \/ AbortTick(r)
  <2>1. /\ \A x \in Tickets :
               holder'[x] = IF holder[x] = r THEN NoSession ELSE holder[x]
        /\ current' = [current EXCEPT ![r] = NoTicket]
        /\ \A q \in Reconcilers \ {r} : batch'[q] = batch[q] /\ rpc'[q] = rpc[q]
        /\ rpc'[r] = "idle" => batch'[r] = {}
    BY <1>3, <1>a DEF FinishCancel, AbortTick, EndTick, ReleaseLocks
  <2>2. \A x \in Tickets :
            /\ holder'[x] \notin Senders
            /\ \A h \in Handlers :
                   holder'[x] = h <=> cpc'[h] = "cancel_calling" /\ TicketOf(h)' = x
    BY <1>b, <1>c, <2>1 DEF LockInv, LocksMatchWork, At
  <2>3. \A x \in Tickets, q \in Reconcilers :
            /\ holder'[x] = q => x \in batch'[q]
            /\ current'[q] = x => holder'[x] = q
    BY <1>a, <1>b, <2>1 DEF LockInv, LocksMatchWork
  <2>4. QED
    BY <2>1, <2>2, <2>3 DEF LockInv, LocksMatchWork, At
<1>4. QED
  BY <1>1, <1>2, <1>3 DEF ReconcilerStep

\* The other processes take no row lock that outlives their step.
LEMMA NextLockInv == TypeInv /\ LockInv /\ [Next]_vars => LockInv'
<1> SUFFICES ASSUME TypeInv, LockInv, [Next]_vars
             PROVE  LockInv'
  OBVIOUS
<1>1. CASE Create \/ TimePasses \/ UNCHANGED vars
  BY <1>1, LockInvStutter
     DEF Create, TimePasses, CreateTicket, GrowOld, vars, storeVars,
         consumerVars, reconcilerVars, lockVars
<1>2. CASE Send
  <2>1. UNCHANGED holder
    BY <1>2 DEF Send, GatewayStep, Take, ProviderRefuses, ProviderAccepts,
       RecordAck, FailSender, storeVars
  <2>2. QED
    BY <1>2, <2>1, LockInvStutter DEF Send, consumerVars, reconcilerVars, lockVars
<1>3. QED
  BY <1>1, <1>2, ConsumerKeepsLockInv, ReconcilerKeepsLockInv
     DEF Next, Consume, Reconcile

\* At most one request_cancellation of a ticket runs its call of the monolith,
\* and who runs it holds the row.
THEOREM LocksMatch == Spec => []LocksMatchWork
<1>1. TypeInv /\ LockInv /\ [Next]_vars => (TypeInv /\ LockInv)'
  BY NextTypeInv, NextLockInv
<1>2. LockInv => LocksMatchWork
  BY DEF LockInv
<1>3. QED
  BY InitTypeInv, InitLockInv, <1>1, <1>2, PTL DEF Spec

\* A row nobody has created is locked by nobody.
LEMMA AbsentRowsAreFree ==
    ASSUME TypeInv, RowsExist, LockInv, NEW t \in Tickets, status[t] = "absent"
    PROVE  holder[t] = NoSession
<1>1. holder[t] \in Sessions \cup {NoSession}
  BY DEF TypeInv, TypeOK, StoreTypeOK
<1>2. ASSUME NEW h \in Handlers, holder[t] = h
      PROVE  FALSE
  BY <1>2 DEF LockInv, LocksMatchWork, At, TypeInv, WorkExists, RowsExist, TicketOf
<1>3. ASSUME NEW r \in Reconcilers, holder[t] = r
      PROVE  FALSE
  BY <1>3 DEF LockInv, LocksMatchWork, RowsExist
<1>4. QED
  BY <1>1, <1>2, <1>3 DEF Sessions, LockInv, LocksMatchWork

\* A row that is locked keeps its status until the session that holds the lock
\* commits: nobody moves a ticket under request_cancellation.
THEOREM LocksProtect == Spec => LockedRowsUntouched
<1>1. ASSUME TypeInv, RowsExist, LockInv, [Next]_vars, NEW t \in Tickets,
             status'[t] # status[t], holder[t] # NoSession
      PROVE  holder'[t] = NoSession
  <2>1. RowMove(t) /\ status[t] # "absent"
    BY <1>1, OnlyRowMoves, AbsentRowsAreFree
  <2>2. ASSUME NEW h \in Handlers, TicketOf(h) = t, ApplyRecommendation(h)
        PROVE  FALSE
    BY <1>1, <2>2 DEF ApplyRecommendation, Lockable, LockInv, LocksMatchWork, At
  <2>3. ASSUME NEW h \in Handlers, TicketOf(h) = t,
               Settle(h) \/ CommitCancellation(h) \/ ApplyCancellation(h)
        PROVE  holder'[t] = NoSession
    <3>1. holder[t] = h
      BY <1>1, <2>3 DEF Settle, CommitCancellation, ApplyCancellation, Lockable,
         LockInv, LocksMatchWork
    <3>2. QED
      BY <2>3, <3>1 DEF Settle, CommitCancellation, ApplyCancellation, Finish, ReleaseLocks
  <2>4. ASSUME NEW g \in Senders, EventOf(g).ticket = t, RecordAck(g)
        PROVE  FALSE
    BY <1>1, <2>4 DEF RecordAck, Lockable, LockInv, LocksMatchWork
  <2>5. ASSUME NEW r \in Reconcilers, FinishCancel(r), current[r] = t
        PROVE  holder'[t] = NoSession
    BY <1>1, <2>5 DEF FinishCancel, EndTick, ReleaseLocks, LockInv, LocksMatchWork
  <2>6. ~CreateTicket(t)
    BY <2>1 DEF CreateTicket
  <2>7. QED
    BY <2>1, <2>2, <2>3, <2>4, <2>5, <2>6 DEF RowMove
<1>2. TypeInv /\ RowsExist /\ LockInv /\ [Next]_vars =>
          [\A t \in Tickets :
               status'[t] # status[t] /\ holder[t] # NoSession =>
                   holder'[t] = NoSession]_vars
  BY <1>1
<1>3. TypeInv /\ RowsExist /\ LockInv /\ [Next]_vars => (TypeInv /\ RowsExist /\ LockInv)'
  BY NextTypeInv, NextRowsExist, NextLockInv
<1>4. QED
  BY InitTypeInv, InitRowsExist, InitLockInv, <1>2, <1>3, PTL
     DEF Spec, LockedRowsUntouched
=============================================================================
