--------------------------- MODULE OutboundProofs ---------------------------
(***************************************************************************)
(* Theorems about the way of an outbox event to the provider: any number   *)
(* of events, copies and gateways, any x-delivery-limit.                   *)
(***************************************************************************)
EXTENDS OutboundPath, TLAPS

\* What the code has done for a copy whose handler is about to return, or has
\* returned: the provider refused it, or accepted it and its bookkeeping is over.
Done(c) ==
    \/ c \in rejected
    \/ oks[c] > 0 /\ (c[1] \in cancellations \/ c \in recorded)

\* An acknowledgement follows from the place in the code that the handler has
\* reached, so what NothingVanishes says of acknowledged copies is said of the
\* handlers too.
HandlersKnow ==
    \A c \in Copies :
        /\ stage[c] = "recording" => oks[c] > 0
        /\ stage[c] = "returned" \/ place[c] = "acked" => Done(c)

\* A delivery that has not reached the provider yet has its "ok" to come: the
\* earlier ones are all paid for by a return of the copy.
DeliveriesCounted ==
    \A c \in Copies :
        /\ stage[c] = "called" => oks[c] <= returns[c]
        /\ oks[c] <= returns[c] + (IF Held(c) \/ place[c] = "acked" THEN 1 ELSE 0)
        /\ place[c] = "dead" <=> returns[c] > DeliveryLimit

PublishedAreQueued == \A e \in Events : state[e] = "published" => Queued(e)

PathInv == TypeOK /\ HandlersKnow /\ DeliveriesCounted /\ PublishedAreQueued

-----------------------------------------------------------------------------
\* The queue is empty and nothing is committed.
LEMMA InitPath == Init => PathInv
  BY OutboundAssumption
  DEF Init, QueueInit, PathInv, TypeOK, QueueTypeOK, Held, HandlersKnow, Done,
      DeliveriesCounted, PublishedAreQueued

\* A copy that a process has is in none of the other places of the queue.
LEMMA HeldIsNowhereElse ==
    \A c : Held(c) => place[c] \notin {"outside", "ready", "acked", "dead"}
  BY OutboundAssumption DEF Held

\* A copy in the queue stays out of "outside": the event remains queued.
LEMMA QueuedStays ==
    ASSUME PublishedAreQueued, UNCHANGED state,
           \A c \in Copies : place[c] # "outside" => place'[c] # "outside"
    PROVE  PublishedAreQueued'
  BY DEF PublishedAreQueued, Queued, Copies

\* A service's commit, and the commit of a batch, decide events; of those that
\* become PUBLISHED the contract of the producer says that a copy is queued.
LEMMA StateStepKeepsInv ==
    ASSUME PathInv, (\E e \in Events : AddEvent(e)) \/ DecideBatch
    PROVE  PathInv'
<1> USE DEF PathInv
<1>1. UNCHANGED <<place, returns, stage, oks, rejected, recorded>>
  BY DEF AddEvent, DecideBatch, queue, effects
<1>2. cancellations \subseteq cancellations' /\ cancellations' \subseteq Events
  BY DEF AddEvent, DecideBatch, TypeOK
<1>3. /\ state' \in [Events -> {"absent", "pending", "published", "failed"}]
      /\ \A e \in Events : state'[e] = "published" => Queued(e)
  <2>1. ASSUME NEW e \in Events, AddEvent(e)
        PROVE  state' = [state EXCEPT ![e] = "pending"]
    BY <2>1 DEF AddEvent, Relay!Add
  <2>2. ASSUME NEW P \in SUBSET Events, NEW F \in SUBSET Events, Relay!Decide(P, F)
        PROVE  <1>3
    BY <2>2 DEF Relay!Decide, TypeOK, PublishedAreQueued
  <2> QED
    BY <2>1, <2>2 DEF DecideBatch, TypeOK, PublishedAreQueued
<1>4. TypeOK'
  BY <1>1, <1>2, <1>3 DEF TypeOK, QueueTypeOK, Held
<1>5. HandlersKnow' /\ DeliveriesCounted'
  BY <1>1, <1>2 DEF HandlersKnow, Done, DeliveriesCounted, Held
<1>6. PublishedAreQueued'
  BY <1>1, <1>3 DEF PublishedAreQueued, Queued
<1> QED
  BY <1>4, <1>5, <1>6

\* A publish puts a copy into the queue that was not there.
LEMMA PublishKeepsInv ==
    ASSUME PathInv, NEW e \in Events, PublishCopy(e)
    PROVE  PathInv'
<1> USE DEF PathInv
<1>1. PICK n \in 1..MaxCopies : Publish(<<e, n>>)
  BY DEF PublishCopy
<1>2. PICK c \in Copies : c = <<e, n>>
  BY DEF Copies
<1>3. /\ place[c] = "outside"
      /\ place' = [place EXCEPT ![c] = "ready"]
      /\ UNCHANGED <<returns, stage, state, cancellations, oks, rejected, recorded>>
  BY <1>1, <1>2 DEF Publish, PublishCopy, Relay!Enqueue, effects
<1>4. TypeOK'
  BY <1>3, OutboundAssumption DEF TypeOK, QueueTypeOK, Held
<1>5. HandlersKnow' /\ DeliveriesCounted'
  BY <1>3, OutboundAssumption DEF HandlersKnow, Done, DeliveriesCounted, Held, TypeOK, QueueTypeOK
<1>6. PublishedAreQueued'
  BY <1>3, QueuedStays DEF TypeOK, QueueTypeOK
<1> QED
  BY <1>4, <1>5, <1>6

\* A delivery calls the handler in some gateway.
LEMMA ReceiveKeepsInv ==
    ASSUME PathInv, NEW c \in Copies, Receive(c)
    PROVE  PathInv'
<1> USE DEF PathInv
<1>1. PICK g \in Gateways :
          /\ place[c] = "ready"
          /\ place' = [place EXCEPT ![c] = g]
          /\ stage' = [stage EXCEPT ![c] = "called"]
          /\ UNCHANGED <<returns, state, cancellations, oks, rejected, recorded>>
  BY DEF Receive, Deliver, effects
<1>2. ~Held(c) /\ g \notin {"outside", "ready", "acked", "dead"}
  BY <1>1, HeldIsNowhereElse, OutboundAssumption
<1>3. TypeOK'
  BY <1>1, <1>2 DEF TypeOK, QueueTypeOK, Held
<1>4. HandlersKnow'
  BY <1>1, <1>2 DEF HandlersKnow, Done, TypeOK, QueueTypeOK
<1>5. DeliveriesCounted'
  BY <1>1, <1>2 DEF DeliveriesCounted, Held, TypeOK, QueueTypeOK
<1>6. PublishedAreQueued'
  BY <1>1, <1>2, QueuedStays DEF TypeOK, QueueTypeOK
<1> QED
  BY <1>3, <1>4, <1>5, <1>6

\* A step of _send_to_provider.  Only a handler that was just called sends.
LEMMA HandlerKeepsInv ==
    ASSUME PathInv, NEW c \in Copies,
           UNCHANGED <<state, cancellations>>,
           SendRejected(c) \/ SendOk(c) \/ RecordDone(c)
    PROVE  PathInv'
<1> USE DEF PathInv
<1>1. UNCHANGED <<place, returns>>
  BY DEF SendRejected, SendOk, RecordDone, Advance
<1>2. Held(c)
  BY DEF SendRejected, SendOk, RecordDone, Advance, TypeOK, QueueTypeOK
<1>3. TypeOK'
  BY <1>1, <1>2 DEF TypeOK, QueueTypeOK, Held, SendRejected, SendOk, RecordDone, Advance
<1>4. HandlersKnow'
  BY <1>1, <1>2, HeldIsNowhereElse
  DEF HandlersKnow, Done, SendRejected, SendOk, RecordDone, Advance, TypeOK, QueueTypeOK
<1>5. DeliveriesCounted'
  BY <1>1, <1>2
  DEF DeliveriesCounted, Held, SendRejected, SendOk, RecordDone, Advance, TypeOK, QueueTypeOK
<1>6. PublishedAreQueued'
  BY <1>1, QueuedStays
<1> QED
  BY <1>3, <1>4, <1>5, <1>6

\* An acknowledgement is what a handler that returned is answered with.
LEMMA AckKeepsInv ==
    ASSUME PathInv, NEW c \in Copies, Ack(c),
           UNCHANGED <<state, cancellations, effects>>
    PROVE  PathInv'
<1> USE DEF PathInv, effects
<1>1. /\ place' = [place EXCEPT ![c] = "acked"]
      /\ stage' = [stage EXCEPT ![c] = "none"]
      /\ UNCHANGED returns
  BY DEF Ack
<1>2. Held(c) /\ Done(c)
  BY DEF Ack, TypeOK, QueueTypeOK, HandlersKnow
<1>3. TypeOK'
  BY <1>1, OutboundAssumption DEF TypeOK, QueueTypeOK, Held
<1>4. HandlersKnow'
  BY <1>1, <1>2 DEF HandlersKnow, Done, TypeOK, QueueTypeOK
<1>5. DeliveriesCounted'
  BY <1>1, <1>2, HeldIsNowhereElse DEF DeliveriesCounted, Held, TypeOK, QueueTypeOK
<1>6. PublishedAreQueued'
  BY <1>1, QueuedStays DEF TypeOK, QueueTypeOK
<1> QED
  BY <1>3, <1>4, <1>5, <1>6

\* The copies of S return to the queue, or die at the limit: each return pays
\* for the "ok" that the lost delivery may have got.
LEMMA PutBackKeepsInv ==
    ASSUME PathInv, NEW S \in SUBSET Copies, \A c \in S : Held(c), PutBack(S),
           UNCHANGED <<state, cancellations, effects>>
    PROVE  PathInv'
<1> USE OutboundAssumption DEF PathInv, effects
<1>1. \A c \in Copies \ S : place'[c] = place[c] /\ returns'[c] = returns[c]
                            /\ stage'[c] = stage[c]
  BY DEF PutBack
<1>2. \A c \in S : /\ place'[c] = IF returns[c] >= DeliveryLimit THEN "dead" ELSE "ready"
                   /\ returns'[c] = returns[c] + 1
                   /\ stage'[c] = "none"
  BY DEF PutBack, LimitReached, Counted
<1>3. \A c \in S : returns[c] <= DeliveryLimit
  BY HeldIsNowhereElse DEF DeliveriesCounted, TypeOK, QueueTypeOK
<1>4. TypeOK'
  <2>1. place' \in [Copies -> {"outside", "ready", "acked", "dead"} \cup Gateways]
    BY DEF PutBack, TypeOK, QueueTypeOK
  <2>2. returns' \in [Copies -> 0..DeliveryLimit + 1]
    BY <1>3 DEF PutBack, Counted, TypeOK, QueueTypeOK
  <2>3. stage' \in [Copies -> {"none", "called", "recording", "returned"}]
    BY DEF PutBack, TypeOK
  <2>4. \A c \in Copies : place'[c] \in Gateways <=> stage'[c] # "none"
    BY <1>1, <1>2 DEF TypeOK, QueueTypeOK, Held
  <2> QED
    BY <2>1, <2>2, <2>3, <2>4 DEF TypeOK, QueueTypeOK, Held
<1>5. HandlersKnow'
  BY <1>1, <1>2 DEF HandlersKnow, Done
<1>6. DeliveriesCounted'
  <2>1. ASSUME NEW c \in S
        PROVE  /\ place'[c] = "dead" <=> returns'[c] > DeliveryLimit
               /\ oks[c] <= returns'[c]
    BY <1>2, <1>3 DEF DeliveriesCounted, TypeOK, QueueTypeOK
  <2> QED
    BY <1>1, <1>2, <2>1 DEF DeliveriesCounted, Held, TypeOK, QueueTypeOK
<1>7. PublishedAreQueued'
  BY <1>1, <1>2, QueuedStays
<1> QED
  BY <1>4, <1>5, <1>6, <1>7

\* Every step of a producer, of the queue, of a handler or of a crash.
LEMMA NextPath == PathInv /\ [Next]_vars => PathInv'
<1> SUFFICES ASSUME PathInv, [Next]_vars
             PROVE  PathInv'
    OBVIOUS
<1>1. CASE UNCHANGED vars
  BY <1>1 DEF vars, queue, effects, PathInv, TypeOK, QueueTypeOK, Held, HandlersKnow,
              Done, DeliveriesCounted, PublishedAreQueued, Queued
<1>2. ASSUME NEW c \in Copies, Handle(c)
      PROVE  PathInv'
  <2>1. CASE Raises(c)
    <3>1. Held(c)
      BY <2>1 DEF Raises, Raise, PathInv, TypeOK, QueueTypeOK
    <3> QED
      BY <1>2, <2>1, <3>1, PutBackKeepsInv DEF Handle, Raises, Raise, OnError
  <2> QED
    BY <1>2, <2>1, HandlerKeepsInv, AckKeepsInv DEF Handle
<1>3. ASSUME NEW g \in Gateways, Crash(g)
      PROVE  PathInv'
  BY <1>3, PutBackKeepsInv DEF Crash, Disconnect, Held
<1> QED
  BY <1>1, <1>2, <1>3, StateStepKeepsInv, PublishKeepsInv, ReceiveKeepsInv DEF Next

\* The invariant of the outbound path, over all its behaviours.
LEMMA PathHolds == Spec => []PathInv
  BY InitPath, NextPath, PTL DEF Spec

-----------------------------------------------------------------------------
\* The queue and the handlers keep their types; exactly the delivered copies
\* have a handler.
THEOREM OutboundTypes == Spec => []TypeOK
<1>1. PathInv => TypeOK
  BY DEF PathInv
<1> QED
  BY <1>1, PathHolds, PTL

\* Between outbox and provider no event vanishes, for any number of gateways
\* and crashes: PUBLISHED has a copy in the queue, and an acknowledged copy was
\* rejected, or accepted with its bookkeeping over.
THEOREM NoEventVanishes == Spec => []NothingVanishes
<1>1. PathInv => NothingVanishes
  BY DEF PathInv, NothingVanishes, PublishedAreQueued, HandlersKnow, Done
<1> QED
  BY <1>1, PathHolds, PTL

\* rmq_max_attempts bounds the sends of one copy for every value it may have,
\* and a copy is dead-lettered exactly when its returns have used it up.
THEOREM RetriesAreBounded == Spec => []RetriesBounded
<1>1. PathInv => RetriesBounded
  BY HeldIsNowhereElse, OutboundAssumption
  DEF PathInv, RetriesBounded, DeliveriesCounted, TypeOK, QueueTypeOK
<1> QED
  BY <1>1, PathHolds, PTL

-----------------------------------------------------------------------------
(* The contract of the producers *)

\* What the queue and the handlers do is nothing to the producers: a message
\* changes its place, but does not become one that was never published.
LEMMA QueueKeepsQueued ==
    ASSUME TypeOK, UNCHANGED state,
           \A c \in Copies : place[c] = "outside" <=> place'[c] = "outside"
    PROVE  UNCHANGED Relay!vars
<1>1. \A e \in Events : Queued(e) <=> Queued(e)'
  BY DEF Queued, Copies
<1> QED
  BY <1>1 DEF Relay!vars

\* The steps of gateways and queue.
LEMMA DeliveryIsNoPublish ==
    ASSUME PathInv,
           \/ \E c \in Copies : Receive(c) \/ Handle(c)
           \/ \E g \in Gateways : Crash(g)
    PROVE  UNCHANGED Relay!vars
<1> USE DEF PathInv
<1>1. TypeOK
  OBVIOUS
<1>2. ASSUME NEW S \in SUBSET Copies, \A c \in S : Held(c), PutBack(S)
      PROVE  \A c \in Copies : place[c] = "outside" <=> place'[c] = "outside"
  BY <1>2, HeldIsNowhereElse DEF PutBack
<1>3. ASSUME NEW c \in Copies, Receive(c)
      PROVE  UNCHANGED Relay!vars
  <2>1. \A d \in Copies : place[d] = "outside" <=> place'[d] = "outside"
    BY <1>3, OutboundAssumption DEF Receive, Deliver, TypeOK, QueueTypeOK
  <2> QED
    BY <1>1, <1>3, <2>1, QueueKeepsQueued DEF Receive
<1>4. ASSUME NEW c \in Copies, Handle(c)
      PROVE  UNCHANGED Relay!vars
  <2>1. CASE Raises(c)
    <3>1. Held(c) /\ {c} \in SUBSET Copies /\ PutBack({c})
      BY <2>1 DEF Raises, Raise, OnError, TypeOK, QueueTypeOK
    <3> QED
      BY <1>1, <1>2, <1>4, <3>1, QueueKeepsQueued DEF Handle
  <2>2. CASE Ack(c)
    <3>1. Held(c) /\ place' = [place EXCEPT ![c] = "acked"]
      BY <2>2 DEF Ack, TypeOK, QueueTypeOK
    <3>2. \A d \in Copies : place[d] = "outside" <=> place'[d] = "outside"
      BY <3>1, HeldIsNowhereElse DEF TypeOK, QueueTypeOK
    <3> QED
      BY <1>1, <1>4, <3>2, QueueKeepsQueued DEF Handle
  <2>3. CASE SendRejected(c) \/ SendOk(c) \/ RecordDone(c)
    <3>1. UNCHANGED place
      BY <2>3 DEF SendRejected, SendOk, RecordDone, Advance
    <3> QED
      BY <1>1, <1>4, <3>1, QueueKeepsQueued DEF Handle
  <2> QED
    BY <1>4, <2>1, <2>2, <2>3 DEF Handle
<1>5. ASSUME NEW g \in Gateways, Crash(g)
      PROVE  UNCHANGED Relay!vars
  <2>1. \A c \in Copies : place[c] = "outside" <=> place'[c] = "outside"
    BY <1>2, <1>5 DEF Crash, Disconnect, Held
  <2> QED
    BY <1>1, <1>5, <2>1, QueueKeepsQueued DEF Crash
<1> QED
  BY <1>3, <1>4, <1>5

\* The queue between the producers and the gateways, with any number of
\* redeliveries, crashes and dead letters, keeps what the producers promise:
\* once in provider.out, an event stays sent, and PUBLISHED and FAILED are final.
THEOREM PathKeepsOutboxContract == Spec => Relay!Spec
<1>1. Init => Relay!Init
  BY DEF Init, QueueInit, Relay!Init, Queued, Copies
<1>2. PathInv /\ [Next]_vars => [Relay!Next]_(Relay!vars)
  <2> SUFFICES ASSUME PathInv, [Next]_vars
               PROVE  [Relay!Next]_(Relay!vars)
    OBVIOUS
  <2>1. CASE \E e \in Events : AddEvent(e) \/ PublishCopy(e)
    BY <2>1 DEF AddEvent, PublishCopy, Relay!Next
  <2>2. CASE DecideBatch
    BY <2>2 DEF DecideBatch, Relay!Next
  <2>3. CASE UNCHANGED vars
    BY <2>3, QueueKeepsQueued DEF PathInv, vars, queue
  <2> QED
    BY <2>1, <2>2, <2>3, DeliveryIsNoPublish DEF Next
<1> QED
  BY <1>1, <1>2, PathHolds, PTL DEF Spec, Relay!Spec
=============================================================================
