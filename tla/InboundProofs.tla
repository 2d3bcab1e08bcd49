--------------------------- MODULE InboundProofs ---------------------------
(***************************************************************************)
(* Theorems about the way of a frame from the provider into a claim: any   *)
(* number of frames, consumers and restarts, any x-delivery-limit.         *)
(***************************************************************************)
EXTENDS InboundPath, TLAPS, FiniteSetTheorems

\* The queue holds only what the loop has published, which the provider sent;
\* only dead messages have used up the delivery limit.
QueueKnows ==
    \A f \in Messages :
        /\ place[f] # "outside" => f \in sent
        /\ place[f] # "dead" => returns[f] <= DeliveryLimit

\* The receive loop has a frame in hand from the moment it has read it to the
\* moment it has answered it, and answers it only after its publish.
LoopKnows ==
    /\ loop \in {"publishing", "acking"} <=> hand # NoFrame
    /\ loop = "acking" => place[hand] # "outside"

\* What _handle has done by the time it returns, where AckedWasHandled speaks
\* only of messages that are acknowledged already.
HandlersKnow ==
    \A f \in Messages :
        /\ stage[f] = "working" => f \in inbox
        /\ stage[f] = "returned" \/ place[f] = "acked" => f \in inbox \cup dropped

\* LossExplained with what makes it inductive: until stop, the sentinel is not
\* in the client's queue, so that the loop ends by a failed publish only; and
\* the frame of that publish is the only one ever lost.
LossKnown ==
    restarts = 0 /\ session = "open" =>
        /\ \A i \in DOMAIN inbound : inbound[i] # CLOSED
        /\ loop # "ended" => Lost = {}
        /\ \E f : Lost \subseteq {f}

InboundInv ==
    TypeOK /\ QueueKnows /\ LoopKnows /\ AckedIsPersisted /\ HandlersKnow /\ LossKnown

\* What a step does to the queue as far as the gateway can see: nothing that
\* was published is taken out again, and what comes in was sent.
QueueMoves ==
    \A f \in Messages :
        /\ place[f] # "outside" => place'[f] # "outside"
        /\ place'[f] # "outside" => f \in sent'

\* The parts of the invariant that the gateway does not touch.
ConsumerInv ==
    /\ QueueTypeOK
    /\ stage \in [Messages -> {"none", "called", "working", "returned"}]
    /\ inbox \cup dropped \subseteq sent
    /\ QueueKnows
    /\ HandlersKnow

\* The parts of the invariant about the client and the loop.
GatewayInv ==
    /\ sent \subseteq Messages
    /\ delayed \subseteq sent
    /\ inbound \in Seq(sent \cup {CLOSED})
    /\ session \in {"open", "closing", "closed"}
    /\ loop \in {"reading", "publishing", "acking", "ended"}
    /\ hand \in sent \cup {NoFrame}
    /\ provAcked \subseteq sent
    /\ restarts \in 0..MaxRestarts
    /\ LoopKnows
    /\ AckedIsPersisted
    /\ LossKnown

\* The two halves make up the invariant.
LEMMA Halves == InboundInv <=> ConsumerInv /\ GatewayInv
  BY DEF InboundInv, ConsumerInv, GatewayInv, TypeOK

-----------------------------------------------------------------------------
(* The queue and the consumer *)

\* A message that a process has is in none of the other places of the queue.
LEMMA HeldIsNowhereElse ==
    \A f : Held(f) => place[f] \notin {"outside", "ready", "acked", "dead"}
  BY QueueAssumption DEF Held

\* The consumer knows nothing of the gateway but the set of frames sent, which
\* only grows.
LEMMA ConsumerSleeps ==
    ASSUME ConsumerInv, UNCHANGED <<queueVars, consumerVars>>, sent \subseteq sent'
    PROVE  ConsumerInv' /\ QueueMoves
  BY DEF ConsumerInv, QueueTypeOK, Held, QueueKnows, HandlersKnow, queueVars,
         consumerVars, QueueMoves

\* The publish of a frame the provider sent.
LEMMA PublishKeepsConsumer ==
    ASSUME ConsumerInv, NEW f \in sent, sent \subseteq Messages, Publish(f),
           UNCHANGED <<consumerVars, sent>>
    PROVE  ConsumerInv' /\ QueueMoves /\ place'[f] # "outside"
<1> USE QueueAssumption DEF ConsumerInv, Publish, consumerVars
<1>1. QueueTypeOK'
  BY DEF QueueTypeOK, Held
<1>2. QueueKnows'
  BY DEF QueueKnows, QueueTypeOK
<1>3. HandlersKnow'
  BY DEF HandlersKnow, QueueTypeOK
<1>4. QueueMoves /\ place'[f] # "outside"
  BY DEF QueueMoves, QueueKnows, QueueTypeOK
<1> QED
  BY <1>1, <1>2, <1>3, <1>4

\* A delivery calls _handle in some process.
LEMMA DeliverKeepsConsumer ==
    ASSUME ConsumerInv, NEW f \in Messages, Deliver(f), UNCHANGED <<consumerVars, sent>>
    PROVE  ConsumerInv' /\ QueueMoves
<1> USE QueueAssumption DEF ConsumerInv, consumerVars
<1>1. PICK p \in Processes :
          /\ place[f] = "ready"
          /\ place' = [place EXCEPT ![f] = p]
          /\ stage' = [stage EXCEPT ![f] = "called"]
          /\ UNCHANGED returns
  BY DEF Deliver
<1>2. p \notin {"outside", "ready", "acked", "dead"}
  OBVIOUS
<1>3. QueueTypeOK'
  BY <1>1, <1>2 DEF QueueTypeOK, Held
<1>4. QueueKnows' /\ QueueMoves
  BY <1>1, <1>2 DEF QueueKnows, QueueMoves, QueueTypeOK
<1>5. HandlersKnow'
  BY <1>1, <1>2 DEF HandlersKnow, QueueTypeOK
<1> QED
  BY <1>1, <1>3, <1>4, <1>5

\* A step of _handle: the claim is committed before the frame is worked on,
\* and the handler returns only with a claim or a terminal ticket.
LEMMA HandlerKeepsConsumer ==
    ASSUME ConsumerInv, NEW f \in Messages, UNCHANGED sent,
           SkipDuplicate(f) \/ Claim(f) \/ Ignore(f) \/ Finish(f)
    PROVE  ConsumerInv' /\ QueueMoves
<1> USE DEF ConsumerInv, consumerVars
<1>1. PICK to \in {"working", "returned"} :
          /\ stage[f] # "none"
          /\ stage' = [stage EXCEPT ![f] = to]
          /\ UNCHANGED <<place, returns>>
  BY DEF SkipDuplicate, Claim, Ignore, Finish, Advance
<1>2. f \in sent
  BY <1>1, HeldIsNowhereElse DEF QueueTypeOK, QueueKnows
<1>3. QueueTypeOK'
  BY <1>1 DEF QueueTypeOK, Held
<1>4. QueueKnows' /\ QueueMoves
  BY <1>1 DEF QueueKnows, QueueMoves
<1>5. HandlersKnow' /\ inbox' \cup dropped' \subseteq sent
  BY <1>2 DEF HandlersKnow, SkipDuplicate, Claim, Ignore, Finish, Advance
<1> QED
  BY <1>1, <1>3, <1>4, <1>5

\* The acknowledgement of a handler that has returned.
LEMMA AckKeepsConsumer ==
    ASSUME ConsumerInv, NEW f \in Messages, Ack(f), UNCHANGED <<consumerVars, sent>>
    PROVE  ConsumerInv' /\ QueueMoves
<1> USE QueueAssumption DEF ConsumerInv, consumerVars, Ack
<1>1. Held(f) /\ f \in inbox \cup dropped
  BY DEF QueueTypeOK, HandlersKnow
<1>2. QueueTypeOK'
  BY DEF QueueTypeOK, Held
<1>3. QueueKnows' /\ QueueMoves
  BY <1>1, HeldIsNowhereElse DEF QueueKnows, QueueMoves, QueueTypeOK
<1>4. HandlersKnow'
  BY <1>1 DEF HandlersKnow, QueueTypeOK
<1> QED
  BY <1>2, <1>3, <1>4

\* Messages whose handler raised or whose process is lost return, or die at
\* the limit; they are not taken out of the broker.
LEMMA PutBackKeepsConsumer ==
    ASSUME ConsumerInv, NEW S \in SUBSET Messages, \A f \in S : Held(f), PutBack(S),
           UNCHANGED <<consumerVars, sent>>
    PROVE  ConsumerInv' /\ QueueMoves
<1> USE QueueAssumption DEF ConsumerInv, consumerVars
<1>1. \A f \in Messages \ S : place'[f] = place[f] /\ returns'[f] = returns[f]
                              /\ stage'[f] = stage[f]
  BY DEF PutBack
<1>2. \A f \in S : /\ place'[f] = IF returns[f] >= DeliveryLimit THEN "dead" ELSE "ready"
                   /\ returns'[f] = returns[f] + 1
                   /\ stage'[f] = "none"
  BY DEF PutBack, LimitReached, Counted
<1>3. \A f \in S : returns[f] <= DeliveryLimit /\ f \in sent
  BY HeldIsNowhereElse DEF QueueKnows
<1>4. QueueTypeOK'
  <2>1. place' \in [Messages -> {"outside", "ready", "acked", "dead"} \cup Processes]
    BY DEF PutBack, QueueTypeOK
  <2>2. returns' \in [Messages -> 0..DeliveryLimit + 1]
    BY <1>3 DEF PutBack, Counted, QueueTypeOK
  <2>3. \A f \in Messages : place'[f] \in Processes <=> stage'[f] # "none"
    BY <1>1, <1>2 DEF QueueTypeOK, Held
  <2> QED
    BY <2>1, <2>2, <2>3 DEF QueueTypeOK, Held
<1>5. stage' \in [Messages -> {"none", "called", "working", "returned"}]
  BY DEF PutBack
<1>6. QueueKnows' /\ QueueMoves
  BY <1>1, <1>2, <1>3 DEF QueueKnows, QueueMoves, QueueTypeOK
<1>7. HandlersKnow'
  BY <1>1, <1>2 DEF HandlersKnow
<1> QED
  BY <1>4, <1>5, <1>6, <1>7

-----------------------------------------------------------------------------
(* The gateway *)

\* The queue moves under a gateway that does nothing: what it has acknowledged
\* is still in the broker, and no frame is lost.
LEMMA GatewaySleeps ==
    ASSUME GatewayInv, QueueMoves, UNCHANGED <<clientVars, loopVars, restarts>>
    PROVE  GatewayInv'
<1> USE DEF GatewayInv, clientVars, loopVars
<1>1. Lost' \subseteq Lost
  BY DEF Lost, InMemory, QueueMoves
<1>2. LossKnown'
  BY <1>1 DEF LossKnown
<1>3. LoopKnows' /\ AckedIsPersisted'
  BY DEF LoopKnows, AckedIsPersisted, QueueMoves
<1> QED
  BY <1>2, <1>3

\* A frame is in memory as long as something of the memory has it.
LEMMA ClientKeepsGateway ==
    ASSUME GatewayInv, UNCHANGED <<queueVars, loopVars, restarts>>,
           \/ \E f \in Messages : Schedule(f)
           \/ CancelTasks
           \/ PutClosed
           \/ \E f \in Messages : Arrive(f)
    PROVE  GatewayInv' /\ sent \subseteq sent'
<1> USE DEF GatewayInv, queueVars, loopVars
<1>1. LoopKnows' /\ AckedIsPersisted'
  BY DEF LoopKnows, AckedIsPersisted
<1>2. ASSUME NEW f \in Messages, Schedule(f)
      PROVE  GatewayInv' /\ sent \subseteq sent'
  <2>1. Lost' = Lost
    BY <1>2 DEF Schedule, Lost, InMemory
  <2>2. LossKnown'
    BY <1>2, <2>1 DEF Schedule, LossKnown
  <2>3. inbound' \in Seq(sent' \cup {CLOSED})
    BY <1>2 DEF Schedule
  <2> QED
    BY <1>1, <1>2, <2>2, <2>3 DEF Schedule
<1>3. ASSUME CancelTasks \/ PutClosed
      PROVE  GatewayInv' /\ sent \subseteq sent'
  BY <1>1, <1>3 DEF CancelTasks, PutClosed, LossKnown
<1>4. ASSUME NEW f \in Messages, Arrive(f)
      PROVE  GatewayInv' /\ sent \subseteq sent'
  <2>1. /\ f \in delayed
        /\ delayed' = delayed \ {f}
        /\ inbound' = Append(inbound, f)
        /\ UNCHANGED <<sent, session>>
    BY <1>4 DEF Arrive
  <2>2. inbound' \in Seq(sent' \cup {CLOSED})
    BY <2>1
  <2>3. /\ \A i \in DOMAIN inbound : i \in DOMAIN inbound' /\ inbound'[i] = inbound[i]
        /\ \E i \in DOMAIN inbound' : inbound'[i] = f
        /\ \A i \in DOMAIN inbound' :
               inbound'[i] = f \/ (i \in DOMAIN inbound /\ inbound'[i] = inbound[i])
    BY <2>1
  <2>4. \A g : InMemory(g) => (InMemory(g))'
    BY <2>1, <2>3 DEF InMemory
  <2>5. Lost' \subseteq Lost
    BY <2>1, <2>4 DEF Lost
  <2>6. LossKnown'
    BY <2>1, <2>3, <2>5, FrameAssumption DEF LossKnown
  <2> QED
    BY <1>1, <2>1, <2>2, <2>6
<1> QED
  BY <1>2, <1>3, <1>4

\* __anext__ takes a frame out of the client's queue into the hand of the
\* loop, or, after stop, the sentinel.
LEMMA ReadKeepsGateway ==
    ASSUME GatewayInv, Read, UNCHANGED restarts
    PROVE  GatewayInv'
<1> USE DEF GatewayInv
<1>1. /\ loop = "reading" /\ hand = NoFrame
      /\ inbound # <<>> /\ inbound' = Tail(inbound)
      /\ UNCHANGED <<sent, delayed, session, place, provAcked>>
  BY DEF Read, LoopKnows, queueVars
<1>2. inbound' \in Seq(sent' \cup {CLOSED})
  BY <1>1
<1>3. Head(inbound) \in sent \cup {CLOSED}
  BY <1>1
<1>4. \A i \in DOMAIN inbound : inbound[i] = Head(inbound)
                                \/ \E j \in DOMAIN inbound' : inbound'[j] = inbound[i]
  <2> SUFFICES ASSUME NEW i \in DOMAIN inbound, inbound[i] # Head(inbound)
               PROVE  \E j \in DOMAIN inbound' : inbound'[j] = inbound[i]
    OBVIOUS
  <2>1. i \in 2..Len(inbound)
    BY <1>1
  <2>2. i - 1 \in DOMAIN inbound' /\ inbound'[i - 1] = inbound[i]
    BY <1>1, <2>1
  <2> QED
    BY <2>2
<1>5. \A j \in DOMAIN inbound' : \E i \in DOMAIN inbound : inbound'[j] = inbound[i]
  <2>1. ASSUME NEW j \in DOMAIN inbound'
        PROVE  j + 1 \in DOMAIN inbound /\ inbound'[j] = inbound[j + 1]
    BY <1>1, <2>1
  <2> QED
    BY <2>1
<1>6. CASE Head(inbound) = CLOSED
  <2>1. loop' = "ended" /\ hand' = NoFrame
    BY <1>6 DEF Read, LoopGoes
  <2>2. ~(restarts = 0 /\ session = "open")
    <3>1. 1 \in DOMAIN inbound /\ inbound[1] = CLOSED
      BY <1>1, <1>6
    <3> QED
      BY <3>1 DEF LossKnown
  <2>3. LoopKnows' /\ AckedIsPersisted' /\ LossKnown'
    BY <1>1, <2>1, <2>2 DEF LoopKnows, AckedIsPersisted, LossKnown
  <2> QED
    BY <1>1, <1>2, <2>1, <2>3
<1>7. CASE Head(inbound) # CLOSED
  <2>1. loop' = "publishing" /\ hand' = Head(inbound) /\ hand' \in sent
    BY <1>3, <1>7 DEF Read, LoopGoes
  <2>2. LoopKnows' /\ AckedIsPersisted'
    BY <1>1, <2>1, FrameAssumption DEF LoopKnows, AckedIsPersisted
  <2>3. \A f \in sent : InMemory(f) => (InMemory(f))'
    BY <1>1, <1>4, <2>1, FrameAssumption DEF InMemory
  <2>4. Lost' \subseteq Lost
    BY <1>1, <2>3 DEF Lost
  <2>5. LossKnown'
    BY <1>1, <1>5, <2>1, <2>4 DEF LossKnown
  <2> QED
    BY <1>1, <1>2, <2>1, <2>2, <2>5
<1> QED
  BY <1>6, <1>7

\* The loop lets go of its frame, or ends.  While the gateway runs, a frame it
\* lets go of is in the broker, or its publish has failed and the loop ends.
LEMMA LetGoKeepsGateway ==
    ASSUME GatewayInv, QueueMoves, UNCHANGED <<clientVars, restarts>>,
           LoopGoes("reading", NoFrame) \/ LoopGoes("ended", NoFrame),
           provAcked' \subseteq provAcked \cup ({hand} \ {NoFrame}),
           provAcked' # provAcked => loop = "acking",
           restarts = 0 /\ session = "open" =>
               \/ loop = "acking" /\ loop' = "reading"
               \/ loop = "publishing" /\ loop' = "ended"
    PROVE  GatewayInv'
<1> USE DEF GatewayInv, clientVars, LoopGoes
<1>1. LoopKnows'
  BY DEF LoopKnows
<1>2. AckedIsPersisted'
  BY DEF LoopKnows, AckedIsPersisted, QueueMoves
<1>3. Lost' \subseteq Lost \cup ({hand} \ {NoFrame})
  BY DEF Lost, InMemory, QueueMoves
<1>4. loop = "acking" => Lost' \subseteq Lost
  BY <1>3 DEF LoopKnows, Lost, QueueMoves
<1>5. LossKnown'
  BY <1>3, <1>4 DEF LossKnown
<1> QED
  BY <1>1, <1>2, <1>5

\* A confirmed publish: the frame stays in hand, and is in the broker.
LEMMA PublishOkKeepsGateway ==
    ASSUME GatewayInv, QueueMoves, PublishOk, place'[hand] # "outside",
           UNCHANGED restarts
    PROVE  GatewayInv'
<1> USE DEF GatewayInv, PublishOk, LoopGoes, clientVars
<1>1. LoopKnows' /\ AckedIsPersisted'
  BY DEF LoopKnows, AckedIsPersisted, QueueMoves
<1>2. Lost' \subseteq Lost
  BY DEF Lost, InMemory, QueueMoves
<1>3. LossKnown'
  BY <1>2 DEF LossKnown
<1> QED
  BY <1>1, <1>3

\* A restart counts: nothing more is promised about lost frames.
LEMMA RestartKeepsGateway ==
    ASSUME GatewayInv, Restart
    PROVE  GatewayInv'
<1> USE DEF GatewayInv, Restart, LoopGoes, queueVars
<1>1. inbound' \in Seq(sent' \cup {CLOSED})
  OBVIOUS
<1>2. LoopKnows' /\ AckedIsPersisted' /\ LossKnown'
  BY DEF LoopKnows, AckedIsPersisted, LossKnown
<1> QED
  BY <1>1, <1>2, RestartAssumption

-----------------------------------------------------------------------------
(* The two together *)

\* The first start: nothing is sent, queued or claimed.
LEMMA InitInbound == Init => InboundInv
<1> SUFFICES ASSUME Init
             PROVE  InboundInv
    OBVIOUS
<1> USE QueueAssumption, RestartAssumption DEF Init, QueueInit
<1>1. ConsumerInv
  BY DEF ConsumerInv, QueueTypeOK, Held, QueueKnows, HandlersKnow
<1>2. GatewayInv
  BY DEF GatewayInv, LoopKnows, AckedIsPersisted, LossKnown, Lost
<1> QED
  BY <1>1, <1>2, Halves

\* A step of the receive loop.
LEMMA LoopKeepsInv ==
    ASSUME ConsumerInv, GatewayInv, ReceiveLoop
    PROVE  ConsumerInv' /\ GatewayInv'
<1>1. loop \in {"publishing", "acking"} => hand \in sent
  BY DEF GatewayInv, LoopKnows
<1>2. sent \subseteq Messages
  BY DEF GatewayInv
<1>3. UNCHANGED <<consumerVars, restarts, sent>>
  BY DEF ReceiveLoop, Read, PublishOk, PublishFails, SendAck, CancelLoop, clientVars
<1>4. ASSUME UNCHANGED queueVars
      PROVE  ConsumerInv' /\ QueueMoves
  BY <1>3, <1>4, ConsumerSleeps
<1>5. ASSUME loop = "publishing", Publish(hand)
      PROVE  ConsumerInv' /\ QueueMoves /\ place'[hand] # "outside"
  BY <1>1, <1>2, <1>3, <1>5, PublishKeepsConsumer
<1>6. CASE Read
  BY <1>3, <1>4, <1>6, ReadKeepsGateway DEF Read
<1>7. CASE PublishOk
  BY <1>3, <1>5, <1>7, PublishOkKeepsGateway DEF PublishOk
<1>8. CASE PublishFails
  BY <1>3, <1>4, <1>5, <1>8, LetGoKeepsGateway DEF PublishFails, AfterFailure, LoopGoes
<1>9. CASE SendAck
  BY <1>3, <1>4, <1>9, LetGoKeepsGateway DEF SendAck, LoopGoes, GatewayInv, LoopKnows
<1>10. CASE CancelLoop
  BY <1>3, <1>4, <1>5, <1>10, LetGoKeepsGateway DEF CancelLoop
<1> QED
  BY <1>6, <1>7, <1>8, <1>9, <1>10 DEF ReceiveLoop

\* Every step of the client, the loop, the queue, the consumer or a crash.
LEMMA NextInbound == InboundInv /\ [Next]_vars => InboundInv'
<1>h. InboundInv' <=> ConsumerInv' /\ GatewayInv'
  BY Halves, PTL
<1> SUFFICES ASSUME ConsumerInv, GatewayInv, [Next]_vars
             PROVE  ConsumerInv' /\ GatewayInv'
    BY <1>h, Halves
<1>1. ASSUME UNCHANGED <<clientVars, loopVars, restarts>>, ConsumerInv' /\ QueueMoves
      PROVE  ConsumerInv' /\ GatewayInv'
  BY <1>1, GatewaySleeps
<1>2. CASE UNCHANGED vars
  BY <1>1, <1>2, ConsumerSleeps DEF vars, clientVars
<1>3. ASSUME ClientStep \/ \E f \in Messages : Arrive(f)
      PROVE  ConsumerInv' /\ GatewayInv'
  BY <1>3, ClientKeepsGateway, ConsumerSleeps DEF ClientStep, Arrive
<1>4. CASE Restart
  BY <1>4, RestartKeepsGateway, ConsumerSleeps DEF Restart
<1>5. ASSUME NEW f \in Messages, Receive(f)
      PROVE  ConsumerInv' /\ GatewayInv'
  BY <1>1, <1>5, DeliverKeepsConsumer DEF Receive, clientVars
<1>6. ASSUME NEW f \in Messages, Handle(f)
      PROVE  ConsumerInv' /\ GatewayInv'
  <2>1. UNCHANGED <<clientVars, loopVars, restarts>> /\ UNCHANGED sent
    BY <1>6 DEF Handle, clientVars
  <2>2. CASE Raises(f)
    <3>1. Held(f)
      BY <2>2 DEF Raises, Raise, ConsumerInv, QueueTypeOK
    <3>2. {f} \in SUBSET Messages /\ PutBack({f}) /\ UNCHANGED consumerVars
      BY <2>2 DEF Raises, Raise, OnError
    <3> QED
      BY <1>1, <2>1, <3>1, <3>2, PutBackKeepsConsumer
  <2>3. CASE SkipDuplicate(f) \/ Claim(f) \/ Ignore(f) \/ Finish(f)
    BY <1>1, <2>1, <2>3, HandlerKeepsConsumer
  <2>4. CASE Ack(f) /\ UNCHANGED consumerVars
    BY <1>1, <2>1, <2>4, AckKeepsConsumer
  <2> QED
    BY <1>6, <2>2, <2>3, <2>4 DEF Handle
<1>7. ASSUME NEW p \in Processes, Crash(p)
      PROVE  ConsumerInv' /\ GatewayInv'
  <2> DEFINE S == {m \in Messages : place[m] = p}
  <2>1. PutBack(S) /\ \A m \in S : Held(m)
    BY <1>7 DEF Crash, Disconnect, Held
  <2>2. UNCHANGED <<clientVars, loopVars, restarts, consumerVars, sent>>
    BY <1>7 DEF Crash, clientVars
  <2> QED
    BY <1>1, <2>1, <2>2, PutBackKeepsConsumer
<1> QED
  BY <1>2, <1>3, <1>4, <1>5, <1>6, <1>7, LoopKeepsInv DEF Next

\* The invariant of the inbound path, over all its behaviours.
LEMMA InboundHolds == Spec => []InboundInv
  BY InitInbound, NextInbound, PTL DEF Spec

-----------------------------------------------------------------------------
\* The client's queue, the loop, the broker's queue and the tables of the
\* consumer keep their types; nothing is claimed that was not sent.
THEOREM InboundTypes == Spec => []TypeOK
<1>1. InboundInv => TypeOK
  BY DEF InboundInv
<1> QED
  BY <1>1, InboundHolds, PTL

\* send_ack never runs ahead of publish: whatever the queue, the consumers and
\* restarts do afterwards, a frame acknowledged to the provider is in the
\* broker.
THEOREM AcksArePersisted == Spec => []AckedIsPersisted
<1>1. InboundInv => AckedIsPersisted
  BY DEF InboundInv
<1> QED
  BY <1>1, InboundHolds, PTL

\* A frame leaves provider.in by an acknowledgement only with a committed
\* claim or a terminal ticket, for any number of crashes and redeliveries.
THEOREM AcksAreHandled == Spec => []AckedWasHandled
<1>1. InboundInv => AckedWasHandled
  BY DEF InboundInv, HandlersKnow, AckedWasHandled
<1> QED
  BY <1>1, InboundHolds, PTL

\* A gateway that is neither stopped nor restarted loses at most the frame of
\* one failed publish, however many frames the provider sends.
THEOREM OneFrameLost == Spec => []LossExplained
<1>1. InboundInv => LossExplained
  <2> SUFFICES ASSUME InboundInv, restarts = 0, session = "open"
               PROVE  Cardinality(Lost) <= 1 /\ (Lost # {} => loop = "ended")
    BY DEF LossExplained
  <2>1. (Lost # {} => loop = "ended") /\ (Lost = {} \/ \E f : Lost = {f})
    BY DEF InboundInv, LossKnown
  <2>2. Cardinality({}) = 0 /\ \A f : Cardinality({f}) = 1
    BY FS_EmptySet, FS_Singleton
  <2>3. CASE Lost = {}
    BY <2>1, <2>2, <2>3
  <2>4. CASE \E f : Lost = {f}
    BY <2>1, <2>2, <2>4
  <2> QED
    BY <2>1, <2>3, <2>4
<1> QED
  BY <1>1, InboundHolds, PTL
=============================================================================
