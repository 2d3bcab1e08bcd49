--------------------------- MODULE ContractProofs ---------------------------
(***************************************************************************)
(* TicketLifecycle keeps FrameContract and DecisionContract, for every     *)
(* number of handlers, senders, reconcilers and redeliveries.              *)
(*                                                                         *)
(* OneAnswerPerFrame is not inductive: that a frame's second answer is     *)
(* impossible depends on who holds the frame, on whether the claim is      *)
(* committed, and on where the holder is.  FrameInv says so.               *)
(*                                                                         *)
(* DecisionGrounded, CancellationGrounded and NoEarlyRegress are not       *)
(* either: a status is written from an event, an event from a frame, a     *)
(* frame from an earlier event, and from objects a session loaded earlier. *)
(* EvidenceInv follows that chain.                                         *)
(***************************************************************************)
EXTENDS TicketLifecycleProofs

-----------------------------------------------------------------------------
(* One answer per frame *)

\* No event in the outbox was caused by frame f.
Unanswered(f) == \A e \in DOMAIN outbox : outbox[e].cause # f

\* The frames in hand have no event yet.
WorkUnanswered == \A h \in Handlers : cpc[h] # "idle" => Unanswered(cframe[h])

\* OneAnswerPerFrame, with what every handler knows about its frame: it has
\* the frame for itself, the claim is committed as soon as the work leaves
\* "claimed", and the monolith's answer decides where the handler is.
FrameInv ==
    /\ \A h, k \in Handlers :
           cpc[h] # "idle" /\ cpc[k] # "idle" /\ cframe[h] = cframe[k] => h = k
    /\ \A h \in Handlers : cpc[h] = "claimed" => cframe[h] \notin inbox
    /\ \A h \in Handlers :
           cpc[h] \notin {"idle", "claimed"} => cframe[h] \in inbox
    /\ \A h \in Handlers :
           cpc[h] \in {"calling", "cancelling", "cancel_calling"} =>
               settled[cframe[h]] = 0
    /\ \A h \in Handlers : cpc[h] = "settling" => settled[cframe[h]] = 1
    /\ WorkUnanswered
    /\ \A f \in 1..MaxFrames : f \notin inbox => settled[f] = 0
    /\ \A e \in DOMAIN outbox : outbox[e].cause # 0 => outbox[e].cause \in inbox
    /\ OneAnswerPerFrame

frameVars == <<cpc, cframe, inbox, settled, outbox>>

-----------------------------------------------------------------------------
\* Nothing FrameInv speaks of changes.
LEMMA FrameInvStutter ==
    ASSUME FrameInv, UNCHANGED frameVars
    PROVE  FrameInv'
BY DEF frameVars, FrameInv, WorkUnanswered, Unanswered, OneAnswerPerFrame

\* The API and the reconciler write events that no frame caused.
LEMMA FrameInvEmit ==
    ASSUME TypeInv, FrameInv, NEW type \in OutboundTypes, NEW t \in Tickets,
           Emit(type, t, 0), UNCHANGED <<cpc, cframe, inbox, settled>>
    PROVE  FrameInv'
<1>1. /\ DOMAIN outbox' = DOMAIN outbox \cup {Len(outbox) + 1}
      /\ \A e \in DOMAIN outbox : outbox'[e] = outbox[e]
      /\ outbox'[Len(outbox) + 1].cause = 0
  <2>1. StoreTypeOK /\ 0 \in Nat
    BY DEF TypeInv, TypeOK
  <2>2. outbox'[Len(outbox) + 1] = [type |-> type, ticket |-> t, cause |-> 0]
    BY <2>1, EmitType
  <2>3. DOMAIN outbox' = DOMAIN outbox \cup {Len(outbox) + 1}
    BY <2>1, EmitType
  <2>4. \A e \in DOMAIN outbox : outbox'[e] = outbox[e]
    BY <2>1, EmitType
  <2>5. QED
    BY <2>2, <2>3, <2>4
<1>2. \A h \in Handlers : cpc[h] # "idle" => cframe[h] # 0
  BY IndexBounds, MaxFramesIsNat DEF TypeInv, WorkExists
<1>3. WorkUnanswered'
  BY <1>1, <1>2 DEF FrameInv, WorkUnanswered, Unanswered
<1>4. OneAnswerPerFrame'
  BY <1>1 DEF FrameInv, OneAnswerPerFrame
<1>5. QED
  BY <1>1, <1>3, <1>4 DEF FrameInv

\* A handler that stops, for whatever reason, without writing anything.
LEMMA FrameInvFinish ==
    ASSUME TypeInv, FrameInv, NEW h \in Handlers, Finish(h),
           UNCHANGED <<inbox, settled, outbox>>
    PROVE  FrameInv'
BY DEF TypeInv, TypeOK, ConsumerTypeOK, Finish, FrameInv, WorkUnanswered, Unanswered,
   OneAnswerPerFrame

\* A handler takes up a frame: _handle after a try_claim that returned True.
LEMMA FrameInvClaim ==
    ASSUME TypeInv, FrameInv, NEW h \in Handlers, NEW f \in DOMAIN frames,
           Claim(h, f)
    PROVE  FrameInv'
<1>1. /\ cpc[h] = "idle" /\ f \notin inbox /\ ~ClaimPending(f)
      /\ cpc' = [cpc EXCEPT ![h] = "claimed"]
      /\ cframe' = [cframe EXCEPT ![h] = f]
      /\ UNCHANGED <<inbox, settled, outbox>>
  BY DEF Claim, At, AlreadyClaimed, InsertClaim, storeVars
<1>2. cpc \in [Handlers -> HandlerStates] /\ cframe \in [Handlers -> 0..MaxFrames]
  BY DEF TypeInv, TypeOK, ConsumerTypeOK
<1>3. \A k \in Handlers : cpc[k] # "idle" => cframe[k] # f
  BY <1>1 DEF FrameInv, ClaimPending
<1>4. f # 0
  BY IndexBounds, MaxFramesIsNat
<1>5. Unanswered(f)
  BY <1>1, <1>4 DEF FrameInv, WorkUnanswered, Unanswered
<1>7. OneAnswerPerFrame'
  BY <1>1 DEF FrameInv, OneAnswerPerFrame
<1>8. WorkUnanswered'
  BY <1>1, <1>2, <1>5 DEF FrameInv, WorkUnanswered, Unanswered
<1>9. QED
  BY <1>1, <1>2, <1>3, <1>7, <1>8 DEF FrameInv

\* The commit of a claim: ApplyRecommendation goes on, ApplyCancellation is
\* done.
LEMMA FrameInvCommitClaim ==
    ASSUME TypeInv, FrameInv, NEW h \in Handlers, cpc[h] = "claimed",
           CommitClaim(cframe[h]), GoTo(h, "calling") \/ Finish(h),
           UNCHANGED <<settled, outbox>>
    PROVE  FrameInv'
<1>1. /\ inbox' = inbox \cup {cframe[h]}
      /\ UNCHANGED <<settled, outbox>>
      /\ cpc \in [Handlers -> HandlerStates] /\ cframe \in [Handlers -> 0..MaxFrames]
  BY DEF CommitClaim, TypeInv, TypeOK, ConsumerTypeOK
<1>2. /\ cpc' \in {[cpc EXCEPT ![h] = "calling"], [cpc EXCEPT ![h] = "idle"]}
      /\ \A k \in Handlers \ {h} : cframe'[k] = cframe[k]
      /\ cpc'[h] = "calling" => cframe'[h] = cframe[h]
  BY <1>1 DEF GoTo, Finish
<1>3. cframe[h] \notin inbox /\ cframe[h] \in 1..MaxFrames
  BY IndexBounds DEF FrameInv, TypeInv, WorkExists
<1>4. settled[cframe[h]] = 0 /\ Unanswered(cframe[h])
  BY <1>3 DEF FrameInv, WorkUnanswered
<1>5. \A k \in Handlers \ {h} : cpc[k] # "idle" => cframe[k] # cframe[h]
  BY DEF FrameInv
<1>6. WorkUnanswered'
  BY <1>1, <1>2, <1>4 DEF FrameInv, WorkUnanswered, Unanswered
<1>7. OneAnswerPerFrame'
  BY <1>1 DEF FrameInv, OneAnswerPerFrame
<1>8. QED
  BY <1>1, <1>2, <1>3, <1>4, <1>5, <1>6, <1>7 DEF FrameInv

\* The monolith's answer, one way or the other.
LEMMA FrameInvMonolith ==
    ASSUME TypeInv, FrameInv, NEW h \in Handlers,
           MonolithSettles(h) \/ MonolithFails(h)
    PROVE  FrameInv'
<1>1. /\ cpc[h] = "calling"
      /\ UNCHANGED <<cframe, inbox, outbox>>
      /\ cpc \in [Handlers -> HandlerStates] /\ cframe \in [Handlers -> 0..MaxFrames]
      /\ settled \in [1..MaxFrames -> Nat]
  BY DEF MonolithSettles, MonolithFails, At, GoTo, storeVars, TypeInv, TypeOK,
     ConsumerTypeOK
<1>2. cframe[h] \in inbox /\ cframe[h] \in 1..MaxFrames /\ settled[cframe[h]] = 0
  BY <1>1, IndexBounds DEF FrameInv, TypeInv, WorkExists
<1>3. \A k \in Handlers \ {h} : cpc[k] # "idle" => cframe[k] # cframe[h]
  BY <1>1 DEF FrameInv
<1>4. Unanswered(cframe[h])
  BY <1>1 DEF FrameInv, WorkUnanswered
<1>5. WorkUnanswered'
  BY <1>1 DEF FrameInv, WorkUnanswered, Unanswered, MonolithSettles, MonolithFails, GoTo
<1>6. CASE MonolithSettles(h)
  <2>1. /\ settled' = [settled EXCEPT ![cframe[h]] = settled[cframe[h]] + 1]
        /\ cpc' = [cpc EXCEPT ![h] = "settling"]
    BY <1>6 DEF MonolithSettles, GoTo
  <2>2. /\ settled'[cframe[h]] = 1
        /\ \A f \in 1..MaxFrames : f # cframe[h] => settled'[f] = settled[f]
    BY <1>1, <1>2, <2>1
  <2>3. OneAnswerPerFrame'
    BY <1>1, <1>2, <1>4, <2>1, <2>2 DEF FrameInv, OneAnswerPerFrame, WorkUnanswered, Unanswered
  <2>4. \A k \in Handlers : cpc[k] # "idle" => cframe[k] \in 1..MaxFrames
    BY IndexBounds DEF TypeInv, WorkExists
  <2>5. QED
    BY <1>1, <1>2, <1>3, <1>5, <2>1, <2>2, <2>3, <2>4 DEF FrameInv
<1>7. CASE MonolithFails(h)
  <2>1. /\ UNCHANGED settled
        /\ cpc' = [cpc EXCEPT ![h] = "cancelling"]
    BY <1>7 DEF MonolithFails, GoTo
  <2>2. OneAnswerPerFrame'
    BY <1>1, <2>1 DEF FrameInv, OneAnswerPerFrame
  <2>3. QED
    BY <1>1, <1>2, <1>3, <1>5, <2>1, <2>2 DEF FrameInv
<1>8. QED
  BY <1>6, <1>7

\* The commit that answers a frame, or requests a cancellation because of it,
\* ends the work on the frame.
LEMMA FrameInvAnswer ==
    ASSUME TypeInv, FrameInv, NEW h \in Handlers,
           NEW type \in OutboundTypes, NEW t \in Tickets,
           cpc[h] \notin {"idle", "claimed"},
           type \in AckTypes <=> settled[cframe[h]] = 1,
           Emit(type, t, cframe[h]), Finish(h), UNCHANGED <<inbox, settled>>
    PROVE  FrameInv'
<1> DEFINE f == cframe[h]
           n == Len(outbox) + 1
<1>1. f \in inbox /\ f \in 1..MaxFrames /\ Unanswered(f)
  BY IndexBounds DEF FrameInv, WorkUnanswered, TypeInv, WorkExists
<1>2. /\ DOMAIN outbox' = DOMAIN outbox \cup {n}
      /\ \A e \in DOMAIN outbox : outbox'[e] = outbox[e]
      /\ outbox'[n].cause = f /\ outbox'[n].type = type
      /\ UNCHANGED <<inbox, settled>>
  <2>1. StoreTypeOK /\ f \in Nat
    BY <1>1, MaxFramesIsNat DEF TypeInv, TypeOK
  <2>2. outbox'[n] = [type |-> type, ticket |-> t, cause |-> f]
    BY <2>1, EmitType
  <2>3. DOMAIN outbox' = DOMAIN outbox \cup {n}
    BY <2>1, EmitType
  <2>4. \A e \in DOMAIN outbox : outbox'[e] = outbox[e]
    BY <2>1, EmitType
  <2>5. QED
    BY <2>2, <2>3, <2>4
<1>3. /\ cpc' = [cpc EXCEPT ![h] = "idle"]
      /\ \A k \in Handlers \ {h} : cframe'[k] = cframe[k]
      /\ cpc \in [Handlers -> HandlerStates]
  BY DEF Finish, TypeInv, TypeOK, ConsumerTypeOK
<1>4. \A k \in Handlers \ {h} : cpc[k] # "idle" => cframe[k] # f
  BY DEF FrameInv
<1> HIDE DEF f, n
<1>5. \A k \in Handlers : cpc'[k] # "idle" => k # h /\ cpc'[k] = cpc[k]
  BY <1>3
<1>6. WorkUnanswered'
  BY <1>2, <1>3, <1>4, <1>5 DEF FrameInv, WorkUnanswered, Unanswered
<1>7. OneAnswerPerFrame'
  <2>1. \A e \in DOMAIN outbox : outbox'[e].cause # f
    BY <1>1, <1>2 DEF Unanswered
  <2>2. type \in AckTypes <=> settled[f] = 1
    BY DEF f
  <2>3. QED
    BY <1>2, <2>1, <2>2 DEF FrameInv, OneAnswerPerFrame
<1>8. \A e \in DOMAIN outbox' : outbox'[e].cause # 0 => outbox'[e].cause \in inbox'
  BY <1>1, <1>2 DEF FrameInv
<1>9. QED
  BY <1>2, <1>3, <1>5, <1>6, <1>7, <1>8 DEF FrameInv

\* Every step of a handler, one case per step of _handle.
LEMMA ConsumerKeepsFrameInv ==
    ASSUME TypeInv, FrameInv, NEW h \in Handlers, ConsumerStep(h)
    PROVE  FrameInv'
<1>1. ASSUME NEW f \in DOMAIN frames, SkipDuplicate(h, f)
      PROVE  FrameInv'
  BY <1>1, FrameInvStutter DEF SkipDuplicate, consumerVars, storeVars, frameVars
<1>2. ASSUME IgnoreRecommendation(h) \/ FailHandler(h)
      PROVE  FrameInv'
  BY <1>2, FrameInvFinish DEF IgnoreRecommendation, FailHandler
<1>3. ASSUME ApplyRecommendation(h)
      PROVE  FrameInv'
  BY <1>3, FrameInvCommitClaim DEF ApplyRecommendation, At
<1>a. ASSUME cpc[h] # "idle"
      PROVE  TicketOf(h) \in Tickets
  BY <1>a, IndexBounds DEF TypeInv, WorkExists, TicketOf, Frame
<1>4. ASSUME Settle(h)
      PROVE  FrameInv'
  <2>1. CASE Terminal(Loaded(h, TicketOf(h)))
    BY <1>4, <2>1, FrameInvFinish DEF Settle
  <2>2. CASE ~Terminal(Loaded(h, TicketOf(h)))
    <3>1. AckType(ActionOf(h)) \in AckTypes
      BY DEF AckType, AckTypes
    <3>2. settled[cframe[h]] = 1
      BY <1>4 DEF Settle, At, FrameInv
    <3>3. QED
      BY <1>4, <1>a, <2>2, <3>1, <3>2, FrameInvAnswer, TargetsType DEF Settle, At
  <2>3. QED
    BY <2>1, <2>2
<1>5. ASSUME LockForCancel(h)
      PROVE  FrameInv'
  BY <1>5 DEF LockForCancel, At, GoTo, FrameInv, WorkUnanswered, Unanswered, OneAnswerPerFrame,
     TypeInv, TypeOK, ConsumerTypeOK
<1>6. ASSUME CommitCancellation(h)
      PROVE  FrameInv'
  <2>1. settled[cframe[h]] = 0 /\ cpc[h] = "cancel_calling"
    BY <1>6 DEF CommitCancellation, At, FrameInv
  <2>2. "REQUEST_CANCELLATION" \in OutboundTypes \ AckTypes
    BY DEF AckTypes, OutboundTypes
  <2>3. QED
    BY <1>6, <1>a, <2>1, <2>2, FrameInvAnswer DEF CommitCancellation
<1>7. ASSUME ApplyCancellation(h)
      PROVE  FrameInv'
  <2>1. cpc[h] = "claimed" /\ Finish(h) /\ UNCHANGED <<settled, outbox>>
    BY <1>7 DEF ApplyCancellation, At
  <2>2. UNCHANGED inbox \/ CommitClaim(cframe[h])
    BY <1>7 DEF ApplyCancellation
  <2>3. QED
    BY <2>1, <2>2, FrameInvFinish, FrameInvCommitClaim
<1>8. QED
  BY <1>1, <1>2, <1>3, <1>4, <1>5, <1>6, <1>7, FrameInvClaim, FrameInvMonolith
     DEF ConsumerStep

-----------------------------------------------------------------------------
\* Before anything happens no frame is claimed, settled or answered.
LEMMA InitFrameInv == Init => FrameInv
BY MaxFramesIsNat
   DEF Init, StoreInit, ConsumerInit, FrameInv, OneAnswerPerFrame, WorkUnanswered, Unanswered

\* Every step of the ticket system; only handlers write events with a cause.
LEMMA NextFrameInv == TypeInv /\ FrameInv /\ [Next]_vars => FrameInv'
<1> SUFFICES ASSUME TypeInv, FrameInv, [Next]_vars
             PROVE  FrameInv'
  OBVIOUS
<1>1. CASE Create
  <2>1. PICK t \in Tickets : CreateTicket(t)
    BY <1>1 DEF Create
  <2>2. Emit("TICKET", t, 0) /\ UNCHANGED <<cpc, cframe, inbox, settled>>
    BY <1>1, <2>1 DEF Create, CreateTicket, consumerVars
  <2>3. QED
    BY <2>2, FrameInvEmit DEF OutboundTypes
<1>2. CASE TimePasses
  BY <1>2, FrameInvStutter DEF TimePasses, GrowOld, consumerVars, frameVars
<1>3. CASE Consume
  BY <1>3, ConsumerKeepsFrameInv DEF Consume
<1>4. CASE Send
  <2>1. UNCHANGED outbox
    BY <1>4 DEF Send, GatewayStep, Take, ProviderRefuses, ProviderAccepts,
       RecordAck, FailSender, storeVars
  <2>2. QED
    BY <1>4, <2>1, FrameInvStutter DEF Send, consumerVars, frameVars
<1>5. CASE Reconcile
  <2>1. PICK r \in Reconcilers : ReconcilerStep(r)
    BY <1>5 DEF Reconcile
  <2>2. UNCHANGED <<cpc, cframe, inbox, settled>>
    BY <1>5 DEF Reconcile, consumerVars
  <2>3. CASE FinishCancel(r)
    <3>1. current[r] \in Tickets /\ Emit("REQUEST_CANCELLATION", current[r], 0)
      BY <2>3 DEF FinishCancel, TypeInv, WorkExists
    <3>2. QED
      BY <2>2, <3>1, FrameInvEmit DEF OutboundTypes
  <2>4. CASE ~FinishCancel(r)
    <3>1. UNCHANGED outbox
      BY <2>1, <2>4 DEF ReconcilerStep, FindStuck, StartCancel, AbortTick
    <3>2. QED
      BY <2>2, <3>1, FrameInvStutter DEF frameVars
  <2>5. QED
    BY <2>3, <2>4
<1>6. CASE UNCHANGED vars
  BY <1>6, FrameInvStutter DEF vars, consumerVars, storeVars, frameVars
<1>7. QED
  BY <1>1, <1>2, <1>3, <1>4, <1>5, <1>6 DEF Next

\* Whatever is redelivered, interleaved or interrupted, the monolith settles a
\* frame of the provider at most once, and the frame makes at most one event:
\* its answer if it was settled, a cancellation request otherwise.
THEOREM OneAnswer == Spec => []OneAnswerPerFrame
<1>1. TypeInv /\ FrameInv /\ [Next]_vars => (TypeInv /\ FrameInv)'
  BY NextTypeInv, NextFrameInv
<1>2. FrameInv => OneAnswerPerFrame
  BY DEF FrameInv
<1>3. QED
  BY InitTypeInv, InitFrameInv, <1>1, <1>2, PTL DEF Spec

-----------------------------------------------------------------------------
(* Every step is a step of FrameContract *)

\* The phase of a frame that has made no event yet.
LEMMA PhaseBeforeEvent ==
    ASSUME NEW f \in 1..MaxFrames, Unanswered(f)
    PROVE  FramePhase(f) =
               IF f \notin inbox THEN "unseen"
               ELSE IF settled[f] > 0 THEN "settled" ELSE "taken"
<1>1. {e \in DOMAIN outbox : outbox[e].cause = f} = {}
  BY DEF Unanswered
<1>2. QED
  BY <1>1 DEF FramePhase

\* The phase of a frame that has made event e, its only one.
LEMMA PhaseAfterEvent ==
    ASSUME FrameInv, NEW f \in 1..MaxFrames, NEW e \in DOMAIN outbox,
           outbox[e].cause = f
    PROVE  FramePhase(f) =
               IF outbox[e].type \notin AckTypes THEN "refused"
               ELSE IF e \in accepted THEN "acknowledged" ELSE "answered"
<1>1. f # 0
  BY MaxFramesIsNat
<1>2. {d \in DOMAIN outbox : outbox[d].cause = f} = {e}
  BY <1>1 DEF FrameInv, OneAnswerPerFrame
<1>3. {e} # {} /\ ({e} \cap accepted = {} <=> e \notin accepted)
      /\ ((\E d \in {e} : outbox[d].type \notin AckTypes) <=> outbox[e].type \notin AckTypes)
  OBVIOUS
<1>4. QED
  BY <1>2, <1>3 DEF FramePhase

\* What FramePhase says, before and after the event of a frame.
PhaseLaw ==
    \A f \in 1..MaxFrames :
        /\ Unanswered(f) => FramePhase(f) =
               IF f \notin inbox THEN "unseen"
               ELSE IF settled[f] > 0 THEN "settled" ELSE "taken"
        /\ \A e \in DOMAIN outbox : outbox[e].cause = f => FramePhase(f) =
               IF outbox[e].type \notin AckTypes THEN "refused"
               ELSE IF e \in accepted THEN "acknowledged" ELSE "answered"

\* Claim, settlement, answer and acknowledgement of a frame come in this order.
LEMMA PhaseLawHolds == FrameInv => PhaseLaw
BY PhaseBeforeEvent, PhaseAfterEvent DEF PhaseLaw

\* The same of the state after a step.
LEMMA PhaseLawHoldsNext == FrameInv' => PhaseLaw'
BY PhaseLawHolds, PTL

\* A frame whose claim, settlement, event and acknowledgement a step leaves
\* alone keeps its phase.
LEMMA PhaseKept ==
    ASSUME PhaseLaw, PhaseLaw', Continues(outbox', outbox), NEW f \in 1..MaxFrames,
           f \in inbox' <=> f \in inbox,
           settled'[f] = settled[f],
           \A e \in DOMAIN outbox' : outbox'[e].cause = f =>
               e \in DOMAIN outbox /\ (e \in accepted' <=> e \in accepted)
    PROVE  FramePhase(f)' = FramePhase(f)
<1>1. CASE Unanswered(f)
  <2>1. Unanswered(f)'
    BY <1>1 DEF Unanswered, Continues
  <2>2. QED
    BY <1>1, <2>1 DEF PhaseLaw
<1>2. ASSUME NEW e \in DOMAIN outbox, outbox[e].cause = f
      PROVE  FramePhase(f)' = FramePhase(f)
  <2>1. e \in DOMAIN outbox' /\ outbox'[e] = outbox[e]
    BY <1>2 DEF Continues
  <2>2. QED
    BY <1>2, <2>1 DEF PhaseLaw
<1>3. QED
  BY <1>1, <1>2 DEF Unanswered

\* One frame moves, the others keep their phases.
LEMMA PhaseMoves ==
    ASSUME NEW f \in 1..MaxFrames, NEW from, NEW to,
           FramePhase(f) = from, FramePhase(f)' = to,
           \A x \in (1..MaxFrames) \ {f} : FramePhase(x)' = FramePhase(x)
    PROVE  PerFrame!Move(f, from, to)
BY DEF PerFrame!Move

\* A step that writes no event of a frame, claims and settles none, and
\* acknowledges none.
LEMMA PhasesKept ==
    ASSUME PhaseLaw, PhaseLaw', Continues(outbox', outbox),
           UNCHANGED <<inbox, settled>>,
           \A e \in DOMAIN outbox' : outbox'[e].cause \in 1..MaxFrames =>
               e \in DOMAIN outbox /\ (e \in accepted' <=> e \in accepted)
    PROVE  UNCHANGED PerFrame!vars
<1>1. \A f \in 1..MaxFrames : FramePhase(f)' = FramePhase(f)
  BY PhaseKept
<1>2. UNCHANGED [f \in 1..MaxFrames |-> FramePhase(f)]
  BY <1>1
<1>3. QED
  BY <1>2 DEF PerFrame!vars

\* The commit of a claim takes a frame up.
LEMMA ClaimImplementsTake ==
    ASSUME TypeInv, FrameInv, PhaseLaw, PhaseLaw', NEW h \in Handlers,
           cpc[h] = "claimed", CommitClaim(cframe[h]),
           UNCHANGED <<settled, outbox, accepted>>
    PROVE  PerFrame!Next
<1> DEFINE f == cframe[h]
<1>1. PICK x \in 1..MaxFrames : x = f
  BY IndexBounds DEF TypeInv, WorkExists
<1>2. /\ x \notin inbox /\ inbox' = inbox \cup {x}
      /\ settled[x] = 0 /\ Unanswered(x)
  BY <1>1 DEF CommitClaim, FrameInv, WorkUnanswered
<1>3. Unanswered(x)' /\ Continues(outbox', outbox)
  BY <1>2 DEF Unanswered, Continues
<1>4. FramePhase(x) = "unseen" /\ FramePhase(x)' = "taken"
  BY <1>2, <1>3 DEF PhaseLaw
<1>5. \A y \in (1..MaxFrames) \ {x} : FramePhase(y)' = FramePhase(y)
  BY <1>2, <1>3, PhaseKept
<1>6. PerFrame!Take(x)
  BY <1>4, <1>5, PhaseMoves DEF PerFrame!Take
<1>7. QED
  BY <1>6 DEF PerFrame!Next

\* process_ticket that succeeds settles a frame that is taken and not settled.
LEMMA MonolithImplementsSettleOnce ==
    ASSUME TypeInv, FrameInv, PhaseLaw, PhaseLaw', NEW h \in Handlers,
           MonolithSettles(h), UNCHANGED accepted
    PROVE  PerFrame!Next
<1>1. /\ cpc[h] = "calling" /\ UNCHANGED <<inbox, outbox>>
      /\ settled' = [settled EXCEPT ![cframe[h]] = settled[cframe[h]] + 1]
      /\ settled \in [1..MaxFrames -> Nat]
  BY DEF MonolithSettles, At, storeVars, TypeInv, TypeOK, ConsumerTypeOK
<1>2. PICK x \in 1..MaxFrames : x = cframe[h]
  BY <1>1, IndexBounds DEF TypeInv, WorkExists
<1>3. x \in inbox /\ settled[x] = 0 /\ settled'[x] = 1 /\ Unanswered(x)
  BY <1>1, <1>2 DEF FrameInv, WorkUnanswered
<1>4. Unanswered(x)' /\ Continues(outbox', outbox)
  BY <1>1, <1>3 DEF Unanswered, Continues
<1>5. FramePhase(x) = "taken" /\ FramePhase(x)' = "settled"
  BY <1>1, <1>3, <1>4 DEF PhaseLaw
<1>6. \A y \in (1..MaxFrames) \ {x} : FramePhase(y)' = FramePhase(y)
  BY <1>1, <1>2, <1>4, PhaseKept
<1>7. PerFrame!SettleOnce(x)
  BY <1>1, <1>2, <1>5, <1>6, PhaseMoves DEF PerFrame!SettleOnce
<1>8. QED
  BY <1>7 DEF PerFrame!Next

\* The commit that writes the event of a frame answers or refuses it.
LEMMA EmitImplementsAnswer ==
    ASSUME TypeInv, FrameInv, PhaseLaw, PhaseLaw', IndicesExist, NEW h \in Handlers,
           cpc[h] \notin {"idle", "claimed"},
           NEW type \in OutboundTypes, NEW t \in Tickets,
           type \in AckTypes <=> settled[cframe[h]] = 1,
           Emit(type, t, cframe[h]), UNCHANGED <<inbox, settled, accepted>>
    PROVE  PerFrame!Next
<1>1. PICK x \in 1..MaxFrames : x = cframe[h]
  BY IndexBounds DEF TypeInv, WorkExists
<1>2. x \in inbox /\ Unanswered(x) /\ x \in Nat /\ settled[x] \in {0, 1}
  <2>1. settled[x] \in Nat /\ settled[x] <= 1
    BY <1>1 DEF FrameInv, OneAnswerPerFrame, TypeInv, TypeOK, ConsumerTypeOK
  <2>2. QED
    BY <1>1, <2>1, MaxFramesIsNat DEF FrameInv, WorkUnanswered
<1>3. PICK d \in DOMAIN outbox' :
          /\ d \notin DOMAIN outbox
          /\ outbox'[d] = [type |-> type, ticket |-> t, cause |-> x]
          /\ Continues(outbox', outbox)
          /\ \A e \in DOMAIN outbox' : e \in DOMAIN outbox \/ e = d
  <2>1. StoreTypeOK
    BY DEF TypeInv, TypeOK
  <2>2. outbox'[Len(outbox) + 1] = [type |-> type, ticket |-> t, cause |-> x]
    BY <1>1, <1>2, <2>1, EmitType
  <2>3. /\ DOMAIN outbox' = DOMAIN outbox \cup {Len(outbox) + 1}
        /\ \A e \in DOMAIN outbox : outbox'[e] = outbox[e]
    BY <1>1, <1>2, <2>1, EmitType
  <2>4. Len(outbox) + 1 \notin DOMAIN outbox
    BY <2>1 DEF StoreTypeOK
  <2>5. QED
    BY <2>2, <2>3, <2>4 DEF Continues
<1>4. outbox'[d].cause = x /\ outbox'[d].type = type /\ d \notin accepted
  BY <1>3 DEF IndicesExist
<1>5. FramePhase(x)' = IF type \in AckTypes THEN "answered" ELSE "refused"
  BY <1>4 DEF PhaseLaw
<1>6. FramePhase(x) = IF type \in AckTypes THEN "settled" ELSE "taken"
  BY <1>1, <1>2 DEF PhaseLaw
<1>7. \A y \in (1..MaxFrames) \ {x} : FramePhase(y)' = FramePhase(y)
  BY <1>3, <1>4, PhaseKept
<1>8. PerFrame!Answer(x) \/ PerFrame!Refuse(x)
  BY <1>5, <1>6, <1>7, PhaseMoves DEF PerFrame!Answer, PerFrame!Refuse
<1>9. QED
  BY <1>8 DEF PerFrame!Next

\* The provider's "ok" acknowledges an answer; a cancellation request stays a
\* refusal, and a redelivered event changes nothing.
LEMMA AcceptImplementsAcknowledge ==
    ASSUME FrameInv, PhaseLaw, PhaseLaw', NEW e \in DOMAIN outbox,
           Accept(e), UNCHANGED <<inbox, settled, outbox>>
    PROVE  [PerFrame!Next]_(PerFrame!vars)
<1>1. accepted' = accepted \cup {e} /\ Continues(outbox', outbox)
  BY DEF Accept, Continues
<1>2. CASE outbox[e].cause \notin 1..MaxFrames \/ e \in accepted
  BY <1>1, <1>2, PhasesKept
<1>3. CASE outbox[e].cause \in 1..MaxFrames /\ e \notin accepted
  <2>1. PICK x \in 1..MaxFrames : x = outbox[e].cause
    BY <1>3
  <2>2. \A y \in (1..MaxFrames) \ {x} : FramePhase(y)' = FramePhase(y)
    BY <1>1, <2>1, PhaseKept
  <2>3. CASE outbox[e].type \in AckTypes
    <3>1. FramePhase(x) = "answered" /\ FramePhase(x)' = "acknowledged"
      BY <1>1, <1>3, <2>1, <2>3 DEF PhaseLaw
    <3>2. PerFrame!Acknowledge(x)
      BY <2>2, <3>1, PhaseMoves DEF PerFrame!Acknowledge
    <3>3. QED
      BY <3>2 DEF PerFrame!Next
  <2>4. CASE outbox[e].type \notin AckTypes
    <3>1. FramePhase(x)' = FramePhase(x)
      BY <1>1, <2>1, <2>4 DEF PhaseLaw
    <3>2. \A y \in 1..MaxFrames : FramePhase(y)' = FramePhase(y)
      BY <2>2, <3>1
    <3>3. UNCHANGED [y \in 1..MaxFrames |-> FramePhase(y)]
      BY <3>2
    <3>4. QED
      BY <3>3 DEF PerFrame!vars
  <2>5. QED
    BY <2>3, <2>4
<1>4. QED
  BY <1>2, <1>3

\* The steps of a handler.
LEMMA ConsumerImplementsFrames ==
    ASSUME TypeInv, FrameInv, PhaseLaw, PhaseLaw', IndicesExist, [Next]_vars,
           NEW h \in Handlers, ConsumerStep(h), UNCHANGED accepted
    PROVE  [PerFrame!Next]_(PerFrame!vars)
<1> USE DEF At
<1>a. ASSUME UNCHANGED <<inbox, settled, outbox>>
      PROVE  UNCHANGED PerFrame!vars
  BY <1>a, TablesGrow, PhasesKept
<1>b. cpc[h] # "idle" => TicketOf(h) \in Tickets
  BY IndexBounds DEF TypeInv, WorkExists, TicketOf, Frame
<1>1. CASE ApplyRecommendation(h)
  BY <1>1, ClaimImplementsTake DEF ApplyRecommendation
<1>2. CASE MonolithSettles(h)
  BY <1>2, MonolithImplementsSettleOnce
<1>3. CASE Settle(h)
  <2>1. CASE Terminal(Loaded(h, TicketOf(h)))
    BY <1>3, <1>a, <2>1 DEF Settle
  <2>2. CASE ~Terminal(Loaded(h, TicketOf(h)))
    <3>1. AckType(ActionOf(h)) \in AckTypes
      BY DEF AckType, AckTypes
    <3>2. settled[cframe[h]] = 1
      BY <1>3 DEF Settle, FrameInv
    <3>3. QED
      BY <1>3, <1>b, <2>2, <3>1, <3>2, EmitImplementsAnswer, TargetsType DEF Settle
  <2>3. QED
    BY <2>1, <2>2
<1>4. CASE CommitCancellation(h)
  <2>1. settled[cframe[h]] = 0 /\ cpc[h] = "cancel_calling"
    BY <1>4 DEF CommitCancellation, FrameInv
  <2>2. "REQUEST_CANCELLATION" \in OutboundTypes \ AckTypes
    BY DEF AckTypes, OutboundTypes
  <2>3. QED
    BY <1>4, <1>b, <2>1, <2>2, EmitImplementsAnswer DEF CommitCancellation
<1>5. CASE ApplyCancellation(h)
  <2>1. cpc[h] = "claimed" /\ UNCHANGED <<settled, outbox>>
    BY <1>5 DEF ApplyCancellation
  <2>2. UNCHANGED inbox \/ CommitClaim(cframe[h])
    BY <1>5 DEF ApplyCancellation
  <2>3. QED
    BY <2>1, <2>2, <1>a, ClaimImplementsTake
<1>6. CASE ~ApplyRecommendation(h) /\ ~MonolithSettles(h) /\ ~Settle(h)
           /\ ~CommitCancellation(h) /\ ~ApplyCancellation(h)
  BY <1>6, <1>a DEF ConsumerStep, Claim, InsertClaim, SkipDuplicate, consumerVars,
     storeVars, IgnoreRecommendation, MonolithFails, LockForCancel, FailHandler
<1>7. QED
  BY <1>1, <1>2, <1>3, <1>4, <1>5, <1>6

\* Events without a cause, and the provider's acknowledgements.
LEMMA NextImplementsFrames ==
    TypeInv /\ FrameInv /\ IndicesExist /\ [Next]_vars => [PerFrame!Next]_(PerFrame!vars)
<1> SUFFICES ASSUME TypeInv, FrameInv, IndicesExist, [Next]_vars
             PROVE  [PerFrame!Next]_(PerFrame!vars)
  OBVIOUS
<1>a. PhaseLaw /\ PhaseLaw' /\ Continues(outbox', outbox)
  BY NextFrameInv, PhaseLawHolds, PhaseLawHoldsNext, TablesGrow
<1>b. ASSUME NEW type \in OutboundTypes, NEW t \in Tickets, Emit(type, t, 0),
             UNCHANGED <<inbox, settled, accepted>>
      PROVE  UNCHANGED PerFrame!vars
  <2>1. StoreTypeOK /\ 0 \in Nat
    BY DEF TypeInv, TypeOK
  <2>2. outbox'[Len(outbox) + 1] = [type |-> type, ticket |-> t, cause |-> 0]
    BY <1>b, <2>1, EmitType
  <2>3. DOMAIN outbox' = DOMAIN outbox \cup {Len(outbox) + 1}
    BY <1>b, <2>1, EmitType
  <2>4. outbox'[Len(outbox) + 1].cause = 0
    BY <2>2
  <2>5. \A e \in DOMAIN outbox' : outbox'[e].cause \in 1..MaxFrames => e \in DOMAIN outbox
    BY <2>3, <2>4
  <2>6. QED
    BY <1>a, <1>b, <2>5, PhasesKept
<1>c. ASSUME UNCHANGED <<inbox, settled, outbox, accepted>>
      PROVE  UNCHANGED PerFrame!vars
  BY <1>a, <1>c, PhasesKept
<1>1. CASE Create
  BY <1>1, <1>b DEF Create, CreateTicket, consumerVars, providerVars, OutboundTypes
<1>2. CASE TimePasses \/ UNCHANGED vars
  BY <1>2, <1>c DEF TimePasses, GrowOld, vars, storeVars, consumerVars, providerVars
<1>3. CASE Consume
  BY <1>3, <1>a, ConsumerImplementsFrames DEF Consume, providerVars
<1>4. CASE Send
  <2>1. PICK g \in Senders : GatewayStep(g)
    BY <1>4 DEF Send
  <2>2. UNCHANGED <<outbox, inbox, settled>>
    BY <1>4, <2>1 DEF Send, GatewayStep, Take, ProviderRefuses, ProviderAccepts,
       RecordAck, FailSender, storeVars, consumerVars
  <2>3. CASE ProviderAccepts(g)
    <3>1. gevent[g] \in DOMAIN outbox /\ Accept(gevent[g])
      BY <2>3 DEF ProviderAccepts, TypeInv, WorkExists
    <3>2. QED
      BY <1>a, <2>2, <3>1, AcceptImplementsAcknowledge
  <2>4. CASE ~ProviderAccepts(g)
    BY <1>c, <2>1, <2>2, <2>4 DEF GatewayStep, Take, ProviderRefuses, RecordAck,
       FailSender, providerVars
  <2>5. QED
    BY <2>3, <2>4
<1>5. CASE Reconcile
  <2>1. PICK r \in Reconcilers : ReconcilerStep(r)
    BY <1>5 DEF Reconcile
  <2>2. UNCHANGED <<inbox, settled, accepted>>
    BY <1>5 DEF Reconcile, consumerVars, providerVars
  <2>3. CASE FinishCancel(r)
    BY <1>b, <2>2, <2>3 DEF FinishCancel, TypeInv, WorkExists, OutboundTypes
  <2>4. CASE ~FinishCancel(r)
    BY <1>c, <2>1, <2>2, <2>4 DEF ReconcilerStep, FindStuck, StartCancel, AbortTick
  <2>5. QED
    BY <2>3, <2>4
<1>6. QED
  BY <1>1, <1>2, <1>3, <1>4, <1>5 DEF Next

\* Handlers, redeliveries, failures and senders together take every frame of
\* the provider once through the phases of FrameContract.
THEOREM FrameRefinement == Spec => ImplementsFrameContract
<1>1. Init => PerFrame!Init
  BY DEF Init, StoreInit, ConsumerInit, PerFrame!Init, FramePhase
<1>2. TypeInv /\ FrameInv /\ IndicesExist /\ [Next]_vars =>
          (TypeInv /\ FrameInv /\ IndicesExist)'
  BY NextTypeInv, NextFrameInv, NextIndicesExist
<1>3. QED
  BY <1>1, <1>2, InitTypeInv, InitFrameInv, InitIndicesExist, NextImplementsFrames, PTL
     DEF Spec, ImplementsFrameContract, PerFrame!Spec

-----------------------------------------------------------------------------
(* The chain of evidence *)

\* A recommendation recommends something, and a CANCELLATION_APPLIED is sent
\* only for a request that the provider has acknowledged.
FramesGrounded ==
    \A f \in DOMAIN frames :
        IF frames[f].type = "RECOMMENDATION"
          THEN frames[f].action \in RecommendationAction
          ELSE \E e \in accepted :
                   /\ outbox[e].ticket = frames[f].ticket
                   /\ outbox[e].type = "REQUEST_CANCELLATION"

\* An answer in the outbox repeats a claimed recommendation of its ticket.
AnswersGrounded ==
    \A e \in DOMAIN outbox : outbox[e].type \in AckTypes =>
        LET f == outbox[e].cause IN
        /\ f \in inbox
        /\ frames[f].type = "RECOMMENDATION"
        /\ frames[f].ticket = outbox[e].ticket
        /\ AckType(frames[f].action) = outbox[e].type

\* A sender that is about to record an acknowledgement has one to record.
AcksInHand ==
    \A g \in Senders : gpc[g] = "acked" =>
        gevent[g] \in accepted /\ EventOf(g).type # "REQUEST_CANCELLATION"

\* What the identity map of a handler holds: nothing before its first commit,
\* then for ever the status that commit gave the ticket.
HandlersRemember ==
    \A h \in Handlers :
        IF cpc[h] \in {"idle", "claimed"}
          THEN \A t \in Tickets : seen[h][t] = NotLoaded
          ELSE /\ frames[cframe[h]].type = "RECOMMENDATION"
               /\ seen[h][TicketOf(h)] = Recommended(ActionOf(h))

\* A reconciler that has seen CANCELLATION_REQUESTED saw it with its event.
ReconcilersRemember ==
    \A r \in Reconcilers, t \in Tickets :
        seen[r][t] = "cancellation_requested" => HasEvent(t, {"REQUEST_CANCELLATION"})

EvidenceInv ==
    /\ IndicesExist
    /\ FramesGrounded
    /\ AnswersGrounded
    /\ AcksInHand
    /\ HandlersRemember
    /\ ReconcilersRemember

-----------------------------------------------------------------------------
(* What stands behind a status *)

\* Answer e and the recommendation behind it decide ticket t to be st.
Decides(e, t, st) ==
    LET f == outbox[e].cause IN
    /\ outbox[e].ticket = t
    /\ outbox[e].type \in AckTypes
    /\ Decided(outbox[e].type) = st
    /\ f \in inbox
    /\ settled[f] = 1
    /\ frames[f].ticket = t
    /\ frames[f].action = "accept" <=> st = "confirmed"

\* A ticket the provider has not recommended on has no grounds for a decision.
EarlyIsGroundless ==
    \A t \in Tickets : status[t] \in PerTicket!Early => Grounds(t) = {}

\* The column holds a recommendation that was stored, and a decided or
\* cancelled ticket has the evidence for it.
StatusEvidence ==
    \A t \in Tickets :
        /\ recommendation[t] # NoAction => recommendation[t] \in Grounds(t)
        /\ status[t] \in {"confirmed", "declined"} =>
               \E e \in accepted : Decides(e, t, status[t])
        /\ status[t] = "cancelled" =>
               \E f \in inbox :
                   frames[f].ticket = t /\ frames[f].type = "CANCELLATION_APPLIED"

-----------------------------------------------------------------------------
(* The evidence is kept *)

\* The provider answers what was sent to it.
LEMMA NextFramesGrounded ==
    ASSUME TypeInv, IndicesExist, FramesGrounded, [Next]_vars
    PROVE  FramesGrounded'
<1>a. /\ accepted \subseteq accepted' /\ accepted \subseteq DOMAIN outbox
      /\ \A e \in DOMAIN outbox : outbox'[e] = outbox[e]
  BY TablesGrow DEF Continues, IndicesExist
<1>1. CASE UNCHANGED frames
  BY <1>1, <1>a DEF FramesGrounded
<1>2. CASE ~UNCHANGED frames
  <2>1. PICK g \in Senders : ProviderAccepts(g)
    BY <1>2 DEF Next, Create, TimePasses, Consume, Send, Reconcile, providerVars,
       vars, GatewayStep, Take, ProviderRefuses, RecordAck, FailSender
  <2> DEFINE e == gevent[g]
  <2>2. /\ e \in DOMAIN outbox /\ outbox[e] \in Event
        /\ Accept(e)
    BY <2>1, IndexBounds DEF ProviderAccepts, TypeInv, WorkExists
  <2>3. /\ accepted' = accepted \cup {e}
        /\ \A f \in DOMAIN frames' :
               \/ f \in DOMAIN frames /\ frames'[f] = frames[f]
               \/ frames'[f] \in Answers(outbox[e])
    BY <2>2, NewFrame
  <2> HIDE DEF e
  <2>4. ASSUME NEW f \in DOMAIN frames', frames'[f] \in Answers(outbox[e])
        PROVE  IF frames'[f].type = "RECOMMENDATION"
                 THEN frames'[f].action \in RecommendationAction
                 ELSE \E d \in accepted' :
                          /\ outbox'[d].ticket = frames'[f].ticket
                          /\ outbox'[d].type = "REQUEST_CANCELLATION"
    BY <1>a, <2>2, <2>3, <2>4, AnswersAre
  <2>5. QED
    BY <1>a, <2>3, <2>4 DEF FramesGrounded
<1>3. QED
  BY <1>1, <1>2

\* Only the second half of apply_recommendation writes answers.
LEMMA NextAnswersGrounded ==
    ASSUME TypeInv, FrameInv, IndicesExist, AnswersGrounded, HandlersRemember,
           [Next]_vars
    PROVE  AnswersGrounded'
<1>a. /\ inbox \subseteq inbox' /\ inbox \subseteq DOMAIN frames
      /\ \A f \in DOMAIN frames : frames'[f] = frames[f]
  BY TablesGrow DEF Continues, IndicesExist
<1>b. ASSUME \A d \in DOMAIN outbox' :
                 outbox'[d].type \in AckTypes =>
                     d \in DOMAIN outbox /\ outbox'[d] = outbox[d]
      PROVE  AnswersGrounded'
  BY <1>a, <1>b DEF AnswersGrounded
<1>c. ASSUME NEW type \in OutboundTypes \ AckTypes, NEW t \in Tickets,
             NEW cause \in Nat, Emit(type, t, cause)
      PROVE  AnswersGrounded'
  BY <1>b, <1>c, NewEvent
<1>d. "TICKET" \in OutboundTypes \ AckTypes /\ "REQUEST_CANCELLATION" \in OutboundTypes \ AckTypes
  BY DEF OutboundTypes, AckTypes
<1>e. UNCHANGED outbox => AnswersGrounded'
  BY <1>b
<1>f. \A h \in Handlers : cpc[h] # "idle" =>
          TicketOf(h) \in Tickets /\ cframe[h] \in Nat
  BY IndexBounds, MaxFramesIsNat DEF TypeInv, WorkExists, TicketOf, Frame
<1>1. ASSUME NEW h \in Handlers, ConsumerStep(h)
      PROVE  AnswersGrounded'
  <2>1. CASE Settle(h) /\ outbox' # outbox
    <3> DEFINE t == TicketOf(h)
               f == cframe[h]
               type == AckType(ActionOf(h))
    <3>1. /\ Emit(type, t, f) /\ t \in Tickets /\ f \in Nat
          /\ type \in OutboundTypes
      BY <2>1, <1>f, TargetsType DEF Settle, At
    <3>2. /\ f \in inbox /\ frames[f].type = "RECOMMENDATION"
          /\ frames[f].ticket = t /\ AckType(frames[f].action) = type
      BY <2>1 DEF Settle, At, FrameInv, HandlersRemember, TicketOf, ActionOf
    <3> HIDE DEF t, f, type
    <3>3. \A d \in DOMAIN outbox' :
              \/ d \in DOMAIN outbox /\ outbox'[d] = outbox[d]
              \/ outbox'[d] = [type |-> type, ticket |-> t, cause |-> f]
      BY <3>1, NewEvent
    <3>4. QED
      BY <1>a, <3>2, <3>3 DEF AnswersGrounded
  <2>2. CASE CommitCancellation(h)
    BY <2>2, <1>c, <1>d, <1>f DEF CommitCancellation, At
  <2>3. CASE ~(Settle(h) /\ outbox' # outbox) /\ ~CommitCancellation(h)
    BY <1>1, <1>e, <2>3 DEF ConsumerStep, Claim, SkipDuplicate, storeVars,
       IgnoreRecommendation, ApplyRecommendation, MonolithSettles,
       MonolithFails, LockForCancel, ApplyCancellation, FailHandler
  <2>4. QED
    BY <2>1, <2>2, <2>3
<1>2. ASSUME NEW g \in Senders, GatewayStep(g)
      PROVE  AnswersGrounded'
  BY <1>2, <1>e DEF GatewayStep, Take, ProviderRefuses, ProviderAccepts,
     RecordAck, FailSender, storeVars
<1>3. ASSUME NEW r \in Reconcilers, ReconcilerStep(r)
      PROVE  AnswersGrounded'
  <2>1. CASE FinishCancel(r)
    BY <2>1, <1>c, <1>d DEF FinishCancel, TypeInv, WorkExists
  <2>2. CASE ~FinishCancel(r)
    BY <1>3, <1>e, <2>2 DEF ReconcilerStep, FindStuck, StartCancel, AbortTick
  <2>3. QED
    BY <2>1, <2>2
<1>4. ASSUME NEW t \in Tickets, CreateTicket(t) \/ GrowOld(t)
      PROVE  AnswersGrounded'
  BY <1>4, <1>c, <1>d, <1>e DEF CreateTicket, GrowOld
<1>5. QED
  BY <1>1, <1>2, <1>3, <1>4, <1>e
     DEF Next, Create, TimePasses, Consume, Send, Reconcile, vars, storeVars

\* A sender reaches the bookkeeping only through the provider's "ok", and only
\* with an event that has any.
LEMMA NextAcksInHand ==
    ASSUME TypeInv, AcksInHand, [Next]_vars
    PROVE  AcksInHand'
<1>a. /\ accepted \subseteq accepted'
      /\ \A e \in DOMAIN outbox : outbox'[e] = outbox[e]
  BY TablesGrow DEF Continues
<1>b. /\ gpc \in [Senders -> SenderStates]
      /\ gevent \in [Senders -> 0..MaxEvents]
      /\ \A g \in Senders : gpc[g] # "idle" => gevent[g] \in DOMAIN outbox
  BY DEF TypeInv, TypeOK, GatewayTypeOK, WorkExists
<1>1. CASE UNCHANGED gatewayVars
  BY <1>1, <1>a, <1>b DEF AcksInHand, gatewayVars, EventOf
<1>2. ASSUME NEW g \in Senders, GatewayStep(g)
      PROVE  AcksInHand'
  <2>1. \A k \in Senders \ {g} : gpc'[k] = gpc[k] /\ gevent'[k] = gevent[k]
    BY <1>2, <1>b DEF GatewayStep, Take, ProviderRefuses, ProviderAccepts,
       RecordAck, FailSender, Return
  <2>2. ASSUME gpc'[g] = "acked"
        PROVE  /\ gevent'[g] = gevent[g] /\ gevent[g] \in accepted'
               /\ gevent[g] \in DOMAIN outbox
               /\ EventOf(g).type # "REQUEST_CANCELLATION"
    BY <1>2, <1>b, <2>2 DEF GatewayStep, Take, ProviderRefuses, ProviderAccepts,
       Accept, RecordAck, FailSender, Return
  <2>3. QED
    BY <1>a, <1>b, <2>1, <2>2 DEF AcksInHand, EventOf
<1>3. QED
  BY <1>1, <1>2 DEF Next, Create, TimePasses, Consume, Send, Reconcile, vars

\* Between the commit of the claim and the end of the handler nothing refreshes
\* the object it has loaded.
LEMMA NextHandlersRemember ==
    ASSUME TypeInv, HandlersRemember, [Next]_vars
    PROVE  HandlersRemember'
<1> USE DEF At
<1>a. /\ cpc \in [Handlers -> HandlerStates]
      /\ cframe \in [Handlers -> 0..MaxFrames]
      /\ seen \in [Sessions -> [Tickets -> TicketStatus \cup {NotLoaded}]]
      /\ \A h \in Handlers : cpc[h] # "idle" => cframe[h] \in DOMAIN frames
      /\ \A f \in DOMAIN frames : frames'[f] = frames[f] /\ frames[f].ticket \in Tickets
  BY IndexBounds, TablesGrow
     DEF TypeInv, TypeOK, WorkExists, ConsumerTypeOK, StoreTypeOK, Continues, Frame
<1>b. \A h \in Handlers : h \in Sessions
  BY DEF Sessions
<1>c. ASSUME \A h \in Handlers :
                 /\ cpc'[h] = cpc[h] /\ cframe'[h] = cframe[h]
                 /\ seen'[h] = seen[h]
      PROVE  HandlersRemember'
  BY <1>a, <1>c DEF HandlersRemember, TicketOf, ActionOf
<1>1. ASSUME NEW h \in Handlers, ConsumerStep(h)
      PROVE  HandlersRemember'
  <2>1. \A k \in Handlers \ {h} :
            cpc'[k] = cpc[k] /\ cframe'[k] = cframe[k] /\ seen'[k] = seen[k]
    BY <1>1, <1>a, <1>b DEF ConsumerStep, Claim, SkipDuplicate, consumerVars,
       storeVars, GoTo, Finish, Forget, IgnoreRecommendation,
       ApplyRecommendation, MonolithSettles, MonolithFails, Settle,
       LockForCancel, CommitCancellation, ApplyCancellation, FailHandler
  <2>2. ASSUME IF cpc'[h] \in {"idle", "claimed"}
                 THEN \A t \in Tickets : seen'[h][t] = NotLoaded
                 ELSE /\ cframe'[h] = cframe[h] /\ cpc[h] # "idle"
                      /\ frames[cframe[h]].type = "RECOMMENDATION"
                      /\ seen'[h][TicketOf(h)] = Recommended(ActionOf(h))
        PROVE  HandlersRemember'
    BY <1>a, <2>1, <2>2 DEF HandlersRemember, TicketOf, ActionOf
  <2>3. CASE Finish(h)
    <3>1. cpc'[h] = "idle" /\ \A t \in Tickets : seen'[h][t] = NotLoaded
      BY <1>a, <1>b, <2>3 DEF Finish, Forget
    <3>2. QED
      BY <2>2, <3>1
  <2>4. CASE \E f \in DOMAIN frames : Claim(h, f) \/ SkipDuplicate(h, f)
    <3>1. UNCHANGED seen /\ cpc[h] = "idle" /\ cpc'[h] \in {"idle", "claimed"}
      BY <1>a, <2>4 DEF Claim, SkipDuplicate, consumerVars, storeVars
    <3>2. QED
      BY <2>2, <3>1 DEF HandlersRemember
  <2>5. CASE ApplyRecommendation(h)
    <3>1. /\ cpc[h] = "claimed" /\ cpc'[h] = "calling" /\ cframe' = cframe
          /\ frames[cframe[h]].type = "RECOMMENDATION"
          /\ seen' = [seen EXCEPT ![h][TicketOf(h)] = Recommended(ActionOf(h))]
      BY <1>a, <2>5 DEF ApplyRecommendation, GoTo
    <3>2. TicketOf(h) \in Tickets
      BY <1>a, <3>1 DEF TicketOf
    <3>3. QED
      BY <1>a, <1>b, <2>2, <3>1, <3>2
  <2>6. CASE MonolithSettles(h) \/ MonolithFails(h) \/ LockForCancel(h)
    <3>1. /\ cpc[h] \notin {"idle", "claimed"} /\ cpc'[h] \notin {"idle", "claimed"}
          /\ cframe' = cframe /\ UNCHANGED seen
      BY <1>a, <2>6 DEF MonolithSettles, MonolithFails, LockForCancel, GoTo, storeVars
    <3>2. QED
      BY <2>2, <3>1 DEF HandlersRemember
  <2>7. QED
    BY <1>1, <2>3, <2>4, <2>5, <2>6 DEF ConsumerStep, IgnoreRecommendation, Settle,
       CommitCancellation, ApplyCancellation, FailHandler
<1>2. ASSUME NEW r \in Reconcilers, ReconcilerStep(r), UNCHANGED consumerVars
      PROVE  HandlersRemember'
  <2>1. r \notin Handlers /\ r \in Sessions
    BY SessionsAreDistinct DEF Sessions
  <2>2. \A h \in Handlers : seen'[h] = seen[h]
    BY <1>2, <1>a, <1>b, <2>1 DEF ReconcilerStep, FindStuck, StartCancel, FinishCancel,
       AbortTick, EndTick, Forget
  <2>3. QED
    BY <1>2, <1>c, <2>2 DEF consumerVars
<1>3. ASSUME UNCHANGED <<seen, consumerVars>>
      PROVE  HandlersRemember'
  BY <1>3, <1>c DEF consumerVars
<1>4. ASSUME NEW g \in Senders, GatewayStep(g)
      PROVE  UNCHANGED seen
  BY <1>4 DEF GatewayStep, Take, ProviderRefuses, ProviderAccepts, RecordAck,
     FailSender, storeVars
<1>5. QED
  BY <1>1, <1>2, <1>3, <1>4
     DEF Next, Create, TimePasses, CreateTicket, GrowOld, Consume, Send, Reconcile,
         vars, storeVars

\* find_stuck loads what the row says, and a row says CANCELLATION_REQUESTED
\* only together with the event.
LEMMA NextReconcilersRemember ==
    ASSUME TypeInv, TransactionalOutbox, ReconcilersRemember, [Next]_vars
    PROVE  ReconcilersRemember'
<1>a. seen \in [Sessions -> [Tickets -> TicketStatus \cup {NotLoaded}]]
  BY DEF TypeInv, TypeOK, StoreTypeOK
<1>b. \A r \in Reconcilers : r \in Sessions /\ r \notin Handlers
  BY SessionsAreDistinct DEF Sessions
<1>c. \A t \in Tickets : \A types : HasEvent(t, types) => HasEvent(t, types)'
  BY TablesGrow DEF HasEvent, Continues
<1>d. ASSUME \A r \in Reconcilers, t \in Tickets :
                 \/ seen'[r][t] = seen[r][t]
                 \/ seen'[r][t] = NotLoaded
                 \/ HasEvent(t, {"REQUEST_CANCELLATION"})'
                 \/ seen'[r][t] = status[t]
      PROVE  ReconcilersRemember'
  BY <1>c, <1>d DEF ReconcilersRemember, NotLoaded, TransactionalOutbox
<1>1. ASSUME NEW h \in Handlers, ConsumerStep(h)
      PROVE  ReconcilersRemember'
  <2>1. \A r \in Reconcilers : seen'[r] = seen[r]
    BY <1>1, <1>a, <1>b DEF ConsumerStep, Claim, SkipDuplicate, consumerVars,
       storeVars, GoTo, Finish, Forget, IgnoreRecommendation,
       ApplyRecommendation, MonolithSettles, MonolithFails, Settle,
       LockForCancel, CommitCancellation, ApplyCancellation, FailHandler
  <2>2. QED
    BY <1>d, <2>1
<1>2. ASSUME NEW r \in Reconcilers, ReconcilerStep(r)
      PROVE  ReconcilersRemember'
  <2>1. ASSUME NEW B \in SUBSET Tickets, FindStuck(r, B)
        PROVE  ReconcilersRemember'
    BY <2>1, <1>a, <1>b, <1>d DEF FindStuck
  <2>2. CASE FinishCancel(r)
    <3>1. PICK x \in Tickets : x = current[r]
      BY <2>2 DEF FinishCancel, TypeInv, WorkExists
    <3>2. HasEvent(x, {"REQUEST_CANCELLATION"})'
      <4>1. Emit("REQUEST_CANCELLATION", x, 0)
        BY <2>2, <3>1 DEF FinishCancel
      <4>2. \E d \in DOMAIN outbox' :
                outbox'[d] = [type |-> "REQUEST_CANCELLATION", ticket |-> x, cause |-> 0]
        BY <4>1, NewEvent DEF OutboundTypes
      <4>3. QED
        BY <4>2 DEF HasEvent
    <3>3. \/ seen' = [seen EXCEPT ![r] = [t \in Tickets |-> NotLoaded]]
          \/ seen' = [seen EXCEPT ![r][x] = "cancellation_requested"]
      BY <2>2, <3>1 DEF FinishCancel, EndTick, Forget
    <3>4. QED
      BY <1>a, <1>b, <1>d, <3>1, <3>2, <3>3
  <2>3. CASE AbortTick(r)
    BY <2>3, <1>a, <1>b, <1>d DEF AbortTick, EndTick, Forget
  <2>4. CASE \E t \in Tickets : StartCancel(r, t)
    BY <2>4, <1>d DEF StartCancel
  <2>5. QED
    BY <1>2, <2>1, <2>2, <2>3, <2>4 DEF ReconcilerStep
<1>3. ASSUME NEW g \in Senders, GatewayStep(g)
      PROVE  UNCHANGED seen
  BY <1>3 DEF GatewayStep, Take, ProviderRefuses, ProviderAccepts, RecordAck,
     FailSender, storeVars
<1>4. QED
  BY <1>1, <1>2, <1>3, <1>d
     DEF Next, Create, TimePasses, CreateTicket, GrowOld, Consume, Send, Reconcile,
         vars, storeVars

\* The history a ticket system builds, with everything it rests on.
History ==
    /\ TypeInv
    /\ FrameInv
    /\ RowsExist
    /\ TransactionalOutbox
    /\ EvidenceInv

\* The empty tables rest on nothing.
LEMMA InitHistory == Init => History
<1> SUFFICES ASSUME Init
             PROVE  EvidenceInv
  BY InitTypeInv, InitFrameInv, InitRowsExist, InitTransactionalOutbox DEF History
<1>1. QED
  BY DEF Init, StoreInit, ProviderInit, ConsumerInit, GatewayInit, EvidenceInv,
     IndicesExist, FramesGrounded, AnswersGrounded, AcksInHand,
     HandlersRemember, ReconcilersRemember, Sessions, NotLoaded

\* Every step of the API, a handler, a sender or the reconciler leaves a history
\* that rests on what was there before.
LEMMA NextHistory == History /\ [Next]_vars => History'
BY NextTypeInv, NextFrameInv, NextRowsExist, NextTransactionalOutbox,
   NextIndicesExist, NextFramesGrounded, NextAnswersGrounded, NextAcksInHand,
   NextHandlersRemember, NextReconcilersRemember
   DEF History, EvidenceInv

-----------------------------------------------------------------------------
(* Every step is a step of DecisionContract *)

\* What may be recommended for a ticket: the actions of its claimed
\* recommendations, and a cancellation that the reconciler has asked for.
LEMMA InGrounds ==
    \A t, g : g \in Grounds(t) <=>
        \/ \E f \in inbox :
               /\ frames[f].ticket = t /\ frames[f].type = "RECOMMENDATION"
               /\ frames[f].action = g
        \/ g = "cancel" /\ HasEvent(t, {"REQUEST_CANCELLATION"})
BY DEF Grounds, HasEvent

\* The same of the state after a step.
LEMMA InGroundsNext ==
    \A t, g : g \in Grounds(t)' <=>
        \/ \E f \in inbox' :
               /\ frames'[f].ticket = t /\ frames'[f].type = "RECOMMENDATION"
               /\ frames'[f].action = g
        \/ g = "cancel" /\ HasEvent(t, {"REQUEST_CANCELLATION"})'
BY DEF Grounds, HasEvent

\* Grounds come only from a claim of a recommendation or from a request.
LEMMA GroundsKept ==
    ASSUME TypeInv, IndicesExist, [Next]_vars,
           \A f \in inbox' \ inbox : frames[f].type # "RECOMMENDATION",
           \A d \in DOMAIN outbox' \ DOMAIN outbox :
               outbox'[d].type # "REQUEST_CANCELLATION"
    PROVE  \A t : Grounds(t)' = Grounds(t)
<1>1. /\ inbox \subseteq inbox' /\ inbox' \subseteq DOMAIN frames
      /\ \A f \in DOMAIN frames : frames'[f] = frames[f]
      /\ DOMAIN outbox \subseteq DOMAIN outbox'
      /\ \A d \in DOMAIN outbox : outbox'[d] = outbox[d]
  BY TablesGrow, NextIndicesExist DEF Continues
<1>2. \A t : HasEvent(t, {"REQUEST_CANCELLATION"})' <=> HasEvent(t, {"REQUEST_CANCELLATION"})
  BY <1>1 DEF HasEvent
<1>3. \A t, g : g \in Grounds(t)' <=> g \in Grounds(t)
  BY <1>1, <1>2, InGrounds, InGroundsNext
<1>4. QED
  BY <1>3

\* A request adds "cancel" to the grounds of its ticket.
LEMMA GroundsOfRequest ==
    ASSUME TypeInv, IndicesExist, [Next]_vars, NEW t \in Tickets, NEW cause \in Nat,
           Emit("REQUEST_CANCELLATION", t, cause), UNCHANGED inbox
    PROVE  /\ Grounds(t)' = Grounds(t) \cup {"cancel"}
           /\ \A x \in Tickets \ {t} : Grounds(x)' = Grounds(x)
<1> DEFINE ev == [type |-> "REQUEST_CANCELLATION", ticket |-> t, cause |-> cause]
<1>1. /\ inbox' = inbox /\ inbox \subseteq DOMAIN frames
      /\ \A f \in DOMAIN frames : frames'[f] = frames[f]
      /\ DOMAIN outbox \subseteq DOMAIN outbox'
      /\ \A d \in DOMAIN outbox : outbox'[d] = outbox[d]
  BY TablesGrow DEF Continues, IndicesExist
<1>2. /\ \A d \in DOMAIN outbox' : d \in DOMAIN outbox \/ outbox'[d] = ev
      /\ \E d \in DOMAIN outbox' : outbox'[d] = ev
  BY NewEvent DEF OutboundTypes
<1>3. ev.type = "REQUEST_CANCELLATION" /\ ev.ticket = t
  OBVIOUS
<1> HIDE DEF ev
<1>4. /\ HasEvent(t, {"REQUEST_CANCELLATION"})'
      /\ \A x \in Tickets \ {t} :
             HasEvent(x, {"REQUEST_CANCELLATION"})' <=> HasEvent(x, {"REQUEST_CANCELLATION"})
  BY <1>1, <1>2, <1>3 DEF HasEvent
<1>5. /\ \A g : g \in Grounds(t)' <=> g \in Grounds(t) \cup {"cancel"}
      /\ \A x \in Tickets \ {t} : \A g : g \in Grounds(x)' <=> g \in Grounds(x)
  BY <1>1, <1>4, InGrounds, InGroundsNext
<1>6. QED
  BY <1>5

\* A claimed recommendation adds its action to the grounds of its ticket.
LEMMA GroundsOfClaim ==
    ASSUME TypeInv, IndicesExist, [Next]_vars, NEW f \in DOMAIN frames,
           inbox' = inbox \cup {f}, frames[f].type = "RECOMMENDATION", UNCHANGED outbox,
           NEW t \in Tickets, t = frames[f].ticket, NEW a, a = frames[f].action
    PROVE  /\ Grounds(t)' = Grounds(t) \cup {a}
           /\ \A x \in Tickets \ {t} : Grounds(x)' = Grounds(x)
<1>1. /\ inbox \subseteq DOMAIN frames
      /\ \A k \in DOMAIN frames : frames'[k] = frames[k]
  BY TablesGrow DEF Continues, IndicesExist
<1>2. \A x : HasEvent(x, {"REQUEST_CANCELLATION"})' <=> HasEvent(x, {"REQUEST_CANCELLATION"})
  BY DEF HasEvent
<1>3. /\ \A g : g \in Grounds(t)' <=> g \in Grounds(t) \cup {a}
      /\ \A x \in Tickets \ {t} : \A g : g \in Grounds(x)' <=> g \in Grounds(x)
  BY <1>1, <1>2, InGrounds, InGroundsNext
<1>4. QED
  BY <1>3

\* The step of DecisionContract that a status and a grounds change make.
LEMMA ContractMove ==
    ASSUME NEW t \in Tickets, NEW to,
           status \in [Tickets -> TicketStatus],
           status' = [status EXCEPT ![t] = to]
    PROVE  PerTicket!Move(t, to)
BY DEF PerTicket!Move

\* A step that brings no new grounds leaves the contract's grounds as they are.
LEMMA ContractSame ==
    ASSUME \A x \in Tickets : Grounds(x)' = Grounds(x)
    PROVE  UNCHANGED [t \in Tickets |-> Grounds(t)]
OBVIOUS

\* A claim or a request that brings a new ground for one ticket is the
\* contract's.
LEMMA ContractGround ==
    ASSUME NEW t \in Tickets, NEW g,
           Grounds(t)' = Grounds(t) \cup {g},
           \A x \in Tickets \ {t} : Grounds(x)' = Grounds(x)
    PROVE  PerTicket!Ground(t, g)
BY DEF PerTicket!Ground

\* The steps of a handler, stale objects included.
LEMMA ConsumerImplementsContract ==
    ASSUME History, EarlyIsGroundless, [Next]_vars, NEW h \in Handlers,
           ConsumerStep(h)
    PROVE  [PerTicket!Next]_(PerTicket!vars)
<1> USE DEF At
<1>a. /\ TypeInv /\ IndicesExist
      /\ status \in [Tickets -> TicketStatus]
  BY DEF History, EvidenceInv, TypeInv, TypeOK, StoreTypeOK
<1>c. ASSUME UNCHANGED <<status, inbox, outbox>>
      PROVE  UNCHANGED PerTicket!vars
  BY <1>a, <1>c, GroundsKept, ContractSame DEF PerTicket!vars
<1>d. ASSUME cpc[h] # "idle"
      PROVE  /\ cframe[h] \in DOMAIN frames /\ cframe[h] \in Nat
             /\ TicketOf(h) \in Tickets /\ TicketOf(h) = frames[cframe[h]].ticket
             /\ status[TicketOf(h)] # "absent"
  BY <1>a, <1>d, IndexBounds, MaxFramesIsNat
     DEF TypeInv, WorkExists, TicketOf, Frame, History, RowsExist
<1>1. CASE ApplyRecommendation(h)
  <2>1. PICK t \in Tickets, a \in RecommendationAction :
            t = TicketOf(h) /\ a = ActionOf(h)
    BY <1>1, <1>d DEF ApplyRecommendation, ActionOf, History, EvidenceInv, FramesGrounded
  <2>2. Loaded(h, t) = status[t]
    BY <1>1, <2>1 DEF ApplyRecommendation, Loaded, History, EvidenceInv, HandlersRemember
  <2>3. PerTicket!Live(t)
    BY <1>1, <1>d, <2>1, <2>2 DEF ApplyRecommendation, Terminal, PerTicket!Live,
       PerTicket!TERMINAL_TICKET_STATUSES, TERMINAL_TICKET_STATUSES
  <2>4. status' = [status EXCEPT ![t] = Recommended(a)]
    BY <1>1, <1>a, <2>1, <2>2 DEF ApplyRecommendation, ChangeStatus
  <2>5. /\ Grounds(t)' = Grounds(t) \cup {a}
        /\ \A x \in Tickets \ {t} : Grounds(x)' = Grounds(x)
    <3>1. /\ inbox' = inbox \cup {cframe[h]} /\ UNCHANGED outbox
          /\ frames[cframe[h]].type = "RECOMMENDATION"
          /\ cframe[h] \in DOMAIN frames
          /\ t = frames[cframe[h]].ticket /\ a = frames[cframe[h]].action
      BY <1>1, <1>d, <2>1 DEF ApplyRecommendation, CommitClaim, TicketOf, ActionOf
    <3>2. QED
      BY <1>a, <3>1, GroundsOfClaim
  <2>6. PerTicket!Recommend(t, a)
    BY <1>a, <2>3, <2>4, <2>5, ContractMove, ContractGround
       DEF PerTicket!Recommend, PerTicket!Recommended, Recommended
  <2>7. QED
    BY <2>6 DEF PerTicket!Next, PerTicket!RecommendationAction, RecommendationAction
<1>e. ASSUME cpc[h] \notin {"idle", "claimed"}
      PROVE  Loaded(h, TicketOf(h)) = Recommended(ActionOf(h))
  BY <1>e DEF Loaded, History, EvidenceInv, HandlersRemember, Recommended, NotLoaded
<1>2. CASE Settle(h)
  <2>a. PICK t \in Tickets : t = TicketOf(h)
    BY <1>2, <1>d DEF Settle
  <2>1. PICK a : t = TicketOf(h) /\ a = ActionOf(h)
    BY <2>a
  <2>2. a \in RecommendationAction /\ a \in Grounds(t)
    <3>1. /\ cframe[h] \in inbox
          /\ frames[cframe[h]].type = "RECOMMENDATION"
          /\ frames[cframe[h]].ticket = t /\ frames[cframe[h]].action = a
      BY <1>2, <2>1 DEF Settle, TicketOf, ActionOf, History, EvidenceInv,
         HandlersRemember, FrameInv
    <3>2. QED
      BY <1>2, <1>d, <3>1, InGrounds DEF Settle, History, EvidenceInv, FramesGrounded
  <2>3. /\ status' = [status EXCEPT ![t] = "settled"]
        /\ Emit(AckType(a), t, cframe[h]) /\ UNCHANGED inbox
    BY <1>2, <1>a, <1>e, <2>1 DEF Settle, ChangeStatus, Terminal, Recommended,
       TERMINAL_TICKET_STATUSES
  <2>4. \A x \in Tickets : Grounds(x)' = Grounds(x)
    <3>1. AckType(a) \in OutboundTypes /\ AckType(a) # "REQUEST_CANCELLATION"
      BY TargetsType DEF AckType
    <3>2. \A d \in DOMAIN outbox' \ DOMAIN outbox : outbox'[d].type = AckType(a)
      BY <1>2, <1>a, <1>d, <2>3, <3>1, NewEvent DEF Settle
    <3>3. QED
      BY <1>a, <2>3, <3>1, <3>2, GroundsKept
  <2>5. status[t] \notin PerTicket!Early
    BY <2>2 DEF EarlyIsGroundless
  <2>6. PerTicket!SettleOn(t, a)
    BY <1>a, <2>2, <2>3, <2>4, <2>5, ContractMove, ContractSame DEF PerTicket!SettleOn
  <2>7. QED
    BY <2>2, <2>6 DEF PerTicket!Next, PerTicket!RecommendationAction, RecommendationAction
<1>3. CASE CommitCancellation(h)
  <2>1. PICK t \in Tickets : t = TicketOf(h)
    BY <1>3, <1>d DEF CommitCancellation
  <2>2. /\ status' = [status EXCEPT ![t] = "cancellation_requested"]
        /\ Emit("REQUEST_CANCELLATION", t, cframe[h]) /\ UNCHANGED inbox
        /\ cframe[h] \in Nat /\ status[t] # "absent"
    BY <1>3, <1>d, <1>e, <2>1 DEF CommitCancellation, ChangeStatus, Recommended
  <2>3. PerTicket!RequestCancel(t)
    BY <1>a, <2>2, GroundsOfRequest, ContractMove, ContractGround
       DEF PerTicket!RequestCancel
  <2>4. QED
    BY <2>3 DEF PerTicket!Next
<1>4. CASE ApplyCancellation(h)
  <2>1. PICK t \in Tickets : t = TicketOf(h)
    BY <1>4, <1>d DEF ApplyCancellation
  <2>2. Loaded(h, t) = status[t]
    BY <1>4, <2>1 DEF ApplyCancellation, Loaded, History, EvidenceInv, HandlersRemember
  <2>3. CASE status[t] = "cancelled"
    BY <1>4, <1>c, <2>1, <2>2, <2>3 DEF ApplyCancellation
  <2>4. CASE status[t] # "cancelled"
    <3>1. /\ status' = [status EXCEPT ![t] = "cancelled"]
          /\ inbox' = inbox \cup {cframe[h]} /\ UNCHANGED outbox
          /\ frames[cframe[h]].type # "RECOMMENDATION"
      BY <1>4, <2>1, <2>2, <2>4 DEF ApplyCancellation, ChangeStatus, CommitClaim
    <3>2. \A x \in Tickets : Grounds(x)' = Grounds(x)
      BY <1>a, <3>1, GroundsKept
    <3>3. "cancel" \in Grounds(t)
      BY <1>4, <1>d, <2>1, <3>1, InGrounds
         DEF ApplyCancellation, History, EvidenceInv, FramesGrounded, IndicesExist, HasEvent
    <3>4. status[t] \notin PerTicket!Early
      BY <3>3 DEF EarlyIsGroundless
    <3>5. PerTicket!Cancel(t)
      BY <1>a, <3>1, <3>2, <3>3, <3>4, ContractMove, ContractSame DEF PerTicket!Cancel
    <3>6. QED
      BY <3>5 DEF PerTicket!Next
  <2>5. QED
    BY <2>3, <2>4
<1>5. QED
  BY <1>1, <1>2, <1>3, <1>4, <1>c
     DEF ConsumerStep, Claim, InsertClaim, SkipDuplicate, consumerVars, storeVars,
         IgnoreRecommendation, MonolithSettles, MonolithFails, LockForCancel, FailHandler

\* The bookkeeping after an "ok", on a row it reads afresh under the lock.
LEMMA GatewayImplementsContract ==
    ASSUME History, EarlyIsGroundless, [Next]_vars, NEW g \in Senders,
           GatewayStep(g), UNCHANGED inbox
    PROVE  [PerTicket!Next]_(PerTicket!vars)
<1>a. /\ TypeInv /\ IndicesExist
      /\ status \in [Tickets -> TicketStatus]
  BY DEF History, EvidenceInv, TypeInv, TypeOK, StoreTypeOK
<1>b. /\ UNCHANGED outbox
      /\ \A x \in Tickets : Grounds(x)' = Grounds(x)
  <2>1. UNCHANGED outbox
    BY DEF GatewayStep, Take, ProviderRefuses, ProviderAccepts, RecordAck,
       FailSender, storeVars
  <2>2. QED
    BY <1>a, <2>1, GroundsKept
<1>c. UNCHANGED status => UNCHANGED PerTicket!vars
  BY <1>b, ContractSame DEF PerTicket!vars
<1>1. CASE RecordAck(g) /\ status' # status
  <2>1. gevent[g] \in DOMAIN outbox /\ EventOf(g) = outbox[gevent[g]] /\ EventOf(g) \in Event
    BY <1>1, <1>a, IndexBounds DEF RecordAck, TypeInv, WorkExists, EventOf
  <2>2. PICK t \in Tickets, type \in OutboundTypes :
            t = EventOf(g).ticket /\ type = EventOf(g).type
    BY <2>1 DEF Event
  <2>3. /\ AckApplies(type, status[t])
        /\ status' = [status EXCEPT ![t] = AckTarget(type)]
    BY <1>1, <2>2 DEF RecordAck
  <2>4. /\ type # "REQUEST_CANCELLATION"
        /\ status[t] # "absent"
    BY <1>1, <2>1, <2>2 DEF RecordAck, History, RowsExist, EvidenceInv, AcksInHand
  <2>5. CASE type = "TICKET"
    <3>1. PerTicket!Begin(t)
      BY <1>a, <1>b, <2>3, <2>5, ContractMove, ContractSame
         DEF PerTicket!Begin, AckApplies, AckTarget
    <3>2. QED
      BY <3>1 DEF PerTicket!Next
  <2>6. CASE type \in AckTypes
    <3> DEFINE f == outbox[gevent[g]].cause
    <3>1. /\ f \in inbox /\ frames[f].type = "RECOMMENDATION"
          /\ frames[f].ticket = t /\ AckType(frames[f].action) = type
      BY <2>1, <2>2, <2>6 DEF History, EvidenceInv, AnswersGrounded
    <3>2. PICK a \in RecommendationAction : a = frames[f].action
      BY <3>1 DEF History, EvidenceInv, IndicesExist, FramesGrounded
    <3>3. a \in Grounds(t)
      BY <3>1, <3>2, InGrounds
    <3>4. status[t] \notin PerTicket!Early /\ PerTicket!Live(t)
      BY <2>3, <2>4, <3>3 DEF EarlyIsGroundless, AckApplies, Terminal,
         PerTicket!Live, PerTicket!TERMINAL_TICKET_STATUSES, TERMINAL_TICKET_STATUSES
    <3>5. AckTarget(type) = PerTicket!Decided(PerTicket!AckType(a))
      BY <2>6, <3>1, <3>2 DEF AckTarget, Decided, AckType, AckTypes,
         PerTicket!Decided, PerTicket!AckType
    <3>6. PerTicket!Decide(t, a)
      BY <1>a, <1>b, <2>3, <3>3, <3>4, <3>5, ContractMove, ContractSame
         DEF PerTicket!Decide
    <3>7. QED
      BY <3>6 DEF PerTicket!Next, PerTicket!RecommendationAction, RecommendationAction
  <2>7. QED
    BY <2>4, <2>5, <2>6 DEF OutboundTypes, AckTypes
<1>2. CASE ~(RecordAck(g) /\ status' # status)
  BY <1>2, <1>c DEF GatewayStep, Take, ProviderRefuses, ProviderAccepts,
     FailSender, storeVars
<1>3. QED
  BY <1>1, <1>2

\* The reconciler: on an object that says CANCELLATION_REQUESTED already it
\* writes one more event and no status, whatever the row says by now.
LEMMA ReconcilerImplementsContract ==
    ASSUME History, EarlyIsGroundless, [Next]_vars, NEW r \in Reconcilers,
           ReconcilerStep(r), UNCHANGED inbox
    PROVE  [PerTicket!Next]_(PerTicket!vars)
<1>a. /\ TypeInv /\ IndicesExist
      /\ status \in [Tickets -> TicketStatus]
  BY DEF History, EvidenceInv, TypeInv, TypeOK, StoreTypeOK
<1>1. CASE FinishCancel(r)
  <2>1. PICK t \in Tickets : t = current[r]
    BY <1>1, <1>a DEF FinishCancel, TypeInv, WorkExists
  <2>2. /\ ChangeStatus(r, t, "cancellation_requested")
        /\ Emit("REQUEST_CANCELLATION", t, 0)
        /\ status[t] # "absent"
    BY <1>1, <2>1 DEF FinishCancel, History, RowsExist
  <2>3. /\ Grounds(t)' = Grounds(t) \cup {"cancel"}
        /\ \A x \in Tickets \ {t} : Grounds(x)' = Grounds(x)
    BY <1>a, <2>2, GroundsOfRequest
  <2>4. CASE Loaded(r, t) = "cancellation_requested"
    <3>1. UNCHANGED status
      BY <2>2, <2>4 DEF ChangeStatus
    <3>2. HasEvent(t, {"REQUEST_CANCELLATION"})
      BY <2>4 DEF Loaded, History, TransactionalOutbox, EvidenceInv, ReconcilersRemember
    <3>3. "cancel" \in Grounds(t)
      BY <3>2, InGrounds
    <3>4. \A x \in Tickets : Grounds(x)' = Grounds(x)
      BY <2>3, <3>3
    <3>5. QED
      BY <3>1, <3>4, ContractSame DEF PerTicket!vars
  <2>5. CASE Loaded(r, t) # "cancellation_requested"
    <3>1. status' = [status EXCEPT ![t] = "cancellation_requested"]
      BY <2>2, <2>5 DEF ChangeStatus
    <3>2. PerTicket!RequestCancel(t)
      BY <1>a, <2>2, <2>3, <3>1, ContractMove, ContractGround DEF PerTicket!RequestCancel
    <3>3. QED
      BY <3>2 DEF PerTicket!Next
  <2>6. QED
    BY <2>4, <2>5
<1>2. CASE ~FinishCancel(r)
  <2>1. UNCHANGED <<status, outbox>>
    BY <1>2 DEF ReconcilerStep, FindStuck, StartCancel, AbortTick
  <2>2. QED
    BY <1>a, <2>1, GroundsKept, ContractSame DEF PerTicket!vars
<1>3. QED
  BY <1>1, <1>2

\* create_ticket begins the life of a ticket; nothing else happens on its own.
LEMMA NextImplementsContract ==
    History /\ EarlyIsGroundless /\ [Next]_vars => [PerTicket!Next]_(PerTicket!vars)
<1> SUFFICES ASSUME History, EarlyIsGroundless, [Next]_vars
             PROVE  [PerTicket!Next]_(PerTicket!vars)
  OBVIOUS
<1>a. /\ TypeInv /\ IndicesExist
      /\ status \in [Tickets -> TicketStatus]
  BY DEF History, EvidenceInv, TypeInv, TypeOK, StoreTypeOK
<1>1. ASSUME NEW t \in Tickets, CreateTicket(t), UNCHANGED inbox
      PROVE  PerTicket!Next
  <2>1. \A d \in DOMAIN outbox' \ DOMAIN outbox : outbox'[d].type = "TICKET"
    BY <1>1, <1>a, NewEvent DEF CreateTicket, OutboundTypes
  <2>2. \A x \in Tickets : Grounds(x)' = Grounds(x)
    BY <1>1, <1>a, <2>1, GroundsKept
  <2>3. PerTicket!Begin(t)
    BY <1>1, <1>a, <2>2, ContractMove, ContractSame DEF CreateTicket, PerTicket!Begin
  <2>4. QED
    BY <2>3 DEF PerTicket!Next
<1>2. ASSUME UNCHANGED <<status, inbox, outbox>>
      PROVE  UNCHANGED PerTicket!vars
  BY <1>a, <1>2, GroundsKept, ContractSame DEF PerTicket!vars
<1>3. CASE Create
  BY <1>1, <1>3 DEF Create, consumerVars
<1>4. CASE TimePasses \/ UNCHANGED vars
  BY <1>2, <1>4 DEF TimePasses, GrowOld, vars, storeVars, consumerVars
<1>5. QED
  BY <1>3, <1>4, ConsumerImplementsContract, GatewayImplementsContract,
     ReconcilerImplementsContract
     DEF Next, Consume, Send, Reconcile, consumerVars

\* The contract itself keeps early tickets without grounds.
LEMMA ContractKeepsEarly ==
    ASSUME status \in [Tickets -> TicketStatus], EarlyIsGroundless,
           [PerTicket!Next]_(PerTicket!vars)
    PROVE  EarlyIsGroundless'
<1> DEFINE G == [t \in Tickets |-> Grounds(t)]
<1>a. \A t \in Tickets : G[t] = Grounds(t)
  OBVIOUS
<1>b. \A t \in Tickets : G'[t] = Grounds(t)'
  OBVIOUS
<1>1. ASSUME NEW t \in Tickets, NEW to, PerTicket!Move(t, to),
             \/ UNCHANGED G /\ (to \in PerTicket!Early => status[t] \in PerTicket!Early)
             \/ to \notin PerTicket!Early /\ \E x : PerTicket!Ground(t, x)
      PROVE  EarlyIsGroundless'
  <2>1. \A x \in Tickets \ {t} : status'[x] = status[x] /\ G'[x] = G[x]
    BY <1>1 DEF PerTicket!Move, PerTicket!Ground
  <2>2. status'[t] = to
    BY <1>1 DEF PerTicket!Move
  <2>3. to \in PerTicket!Early => G'[t] = G[t] /\ status[t] \in PerTicket!Early
    BY <1>1
  <2> HIDE DEF G
  <2>4. QED
    BY <1>a, <1>b, <2>1, <2>2, <2>3 DEF EarlyIsGroundless
<1>2. CASE UNCHANGED PerTicket!vars
  <2>1. UNCHANGED status /\ UNCHANGED G
    BY <1>2 DEF PerTicket!vars
  <2> HIDE DEF G
  <2>2. QED
    BY <1>a, <1>b, <2>1 DEF EarlyIsGroundless
<1>3. CASE PerTicket!Next
  BY <1>1, <1>3 DEF PerTicket!Next, PerTicket!Begin, PerTicket!RequestCancel,
     PerTicket!Cancel, PerTicket!Recommend, PerTicket!SettleOn, PerTicket!Decide,
     PerTicket!Early, PerTicket!Recommended, PerTicket!Decided
<1>4. QED
  BY <1>2, <1>3

\* No ticket, claim or request is there at the start.
LEMMA InitEarlyIsGroundless == Init => EarlyIsGroundless
BY InGrounds DEF Init, StoreInit, ConsumerInit, EarlyIsGroundless, HasEvent

\* History, and the state of the contract that it supports.
DecisionInv == History /\ EarlyIsGroundless

\* The start of the ticket system, as the contract sees it.
LEMMA InitDecisionInv == Init => DecisionInv
BY InitHistory, InitEarlyIsGroundless DEF DecisionInv

\* Every step keeps the history, and statuses without grounds early.
LEMMA NextDecisionInv == DecisionInv /\ [Next]_vars => DecisionInv'
<1>1. History => status \in [Tickets -> TicketStatus]
  BY DEF History, TypeInv, TypeOK, StoreTypeOK
<1>2. QED
  BY <1>1, NextHistory, NextImplementsContract, ContractKeepsEarly DEF DecisionInv

\* Whatever API, gateway, consumer and reconciler do to a row of tickets, with
\* redeliveries, failures and stale objects, is a step of the state machine of
\* DecisionContract.
THEOREM DecisionRefinement == Spec => ImplementsDecisionContract
<1>1. Init => PerTicket!Init
  BY InGrounds DEF Init, StoreInit, ConsumerInit, PerTicket!Init, HasEvent
<1>2. DecisionInv /\ [Next]_vars => [PerTicket!Next]_(PerTicket!vars)
  BY NextImplementsContract DEF DecisionInv
<1>3. QED
  BY <1>1, <1>2, InitDecisionInv, NextDecisionInv, PTL
     DEF Spec, ImplementsDecisionContract, PerTicket!Spec

\* What apply_recommendation's check under the lock achieves: only a stale
\* settlement, a request or an applied cancellation replaces a terminal status.
THEOREM TerminalStays == Spec => TerminalReopensOnlyStale
<1>1. ASSUME DecisionInv, [Next]_vars, NEW t \in Tickets, Terminal(status[t]),
             status'[t] # status[t]
      PROVE  status'[t] \in {"settled", "cancellation_requested", "cancelled"}
  <2>1. PICK x \in Tickets :
            \/ PerTicket!Begin(x) \/ PerTicket!RequestCancel(x) \/ PerTicket!Cancel(x)
            \/ \E a \in RecommendationAction :
                   \/ PerTicket!Recommend(x, a) \/ PerTicket!SettleOn(x, a)
                   \/ PerTicket!Decide(x, a)
    BY <1>1, NextImplementsContract
       DEF DecisionInv, PerTicket!Next, PerTicket!vars, PerTicket!RecommendationAction,
           RecommendationAction
  <2>2. status \in [Tickets -> TicketStatus]
    BY <1>1 DEF DecisionInv, History, TypeInv, TypeOK, StoreTypeOK
  <2>3. x = t
    BY <1>1, <2>1, <2>2 DEF PerTicket!Move, PerTicket!Begin, PerTicket!RequestCancel,
       PerTicket!Cancel, PerTicket!Recommend, PerTicket!SettleOn, PerTicket!Decide
  <2>4. QED
    BY <1>1, <2>1, <2>2, <2>3 DEF PerTicket!Move, PerTicket!Begin, PerTicket!Live,
       PerTicket!RequestCancel, PerTicket!Cancel, PerTicket!Recommend,
       PerTicket!SettleOn, PerTicket!Decide, Terminal, TERMINAL_TICKET_STATUSES,
       PerTicket!TERMINAL_TICKET_STATUSES
<1>2. DecisionInv /\ [Next]_vars =>
          [\A t \in Tickets : Terminal(status[t]) /\ status'[t] # status[t] =>
               status'[t] \in {"settled", "cancellation_requested", "cancelled"}]_vars
  BY <1>1
<1>3. QED
  BY <1>2, InitDecisionInv, NextDecisionInv, PTL DEF Spec, TerminalReopensOnlyStale

-----------------------------------------------------------------------------
(* The evidence behind a status *)

\* No ticket has a status that would need evidence.
LEMMA InitStatusEvidence == Init => StatusEvidence
BY DEF Init, StoreInit, StatusEvidence

\* Evidence does not go away.
LEMMA EvidenceStays ==
    ASSUME DecisionInv, [Next]_vars
    PROVE  /\ \A e \in accepted : \A t, st : Decides(e, t, st) => Decides(e, t, st)'
           /\ \A t \in Tickets : Grounds(t) \subseteq Grounds(t)'
<1>1. /\ \A e \in DOMAIN outbox : outbox'[e] = outbox[e]
      /\ \A f \in DOMAIN frames : frames'[f] = frames[f]
      /\ DOMAIN outbox \subseteq DOMAIN outbox'
      /\ inbox \subseteq inbox'
      /\ inbox \subseteq DOMAIN frames /\ accepted \subseteq DOMAIN outbox
  BY TablesGrow DEF DecisionInv, History, EvidenceInv, IndicesExist, Continues
<1>2. \A f \in inbox : settled[f] = 1 => settled'[f] = 1
  <2>1. OneAnswerPerFrame'
    BY NextHistory DEF DecisionInv, History, FrameInv
  <2>2. /\ settled \in [1..MaxFrames -> Nat] /\ settled' \in [1..MaxFrames -> Nat]
        /\ inbox \subseteq 1..MaxFrames
    BY NextHistory DEF DecisionInv, History, TypeInv, TypeOK, ConsumerTypeOK
  <2>3. \A f \in 1..MaxFrames : settled'[f] \in {settled[f], settled[f] + 1}
    <3>1. ASSUME NEW h \in Handlers, ConsumerStep(h)
          PROVE  \A f \in 1..MaxFrames : settled'[f] \in {settled[f], settled[f] + 1}
      BY <3>1, <2>2 DEF ConsumerStep, Claim, SkipDuplicate, consumerVars,
         IgnoreRecommendation, ApplyRecommendation, MonolithSettles,
         MonolithFails, Settle, LockForCancel, CommitCancellation,
         ApplyCancellation, FailHandler
    <3>2. QED
      BY <3>1 DEF Next, Create, TimePasses, Consume, Send, Reconcile, consumerVars, vars
  <2>4. QED
    BY <2>1, <2>2, <2>3 DEF OneAnswerPerFrame
<1>3. \A e \in accepted : \A t, st : Decides(e, t, st) => Decides(e, t, st)'
  BY <1>1, <1>2 DEF Decides
<1>4. \A t, types : HasEvent(t, types) => HasEvent(t, types)'
  BY <1>1 DEF HasEvent
<1>5. QED
  BY <1>1, <1>3, <1>4, InGrounds, InGroundsNext

\* Each status that needs evidence is written by the commit that has it.
LEMMA NextStatusEvidence ==
    DecisionInv /\ StatusEvidence /\ [Next]_vars => StatusEvidence'
<1> SUFFICES ASSUME DecisionInv, StatusEvidence, [Next]_vars, NEW t \in Tickets
             PROVE  /\ recommendation'[t] # NoAction => recommendation'[t] \in Grounds(t)'
                    /\ status'[t] \in {"confirmed", "declined"} =>
                           (\E e \in accepted : Decides(e, t, status[t]))'
                    /\ status'[t] = "cancelled" =>
                           \E f \in inbox' :
                               /\ frames'[f].ticket = t
                               /\ frames'[f].type = "CANCELLATION_APPLIED"
  BY DEF StatusEvidence
<1>a. /\ TypeInv /\ IndicesExist /\ accepted \subseteq accepted' /\ inbox \subseteq inbox'
      /\ \A f \in DOMAIN frames : frames'[f] = frames[f]
  BY TablesGrow DEF Continues, DecisionInv, History, EvidenceInv
<1>b. ASSUME NEW h \in Handlers, cpc[h] # "idle"
      PROVE  cframe[h] \in DOMAIN frames /\ frames[cframe[h]] \in Frame
  BY <1>a, <1>b, IndexBounds DEF TypeInv, WorkExists
<1>1. recommendation'[t] # NoAction => recommendation'[t] \in Grounds(t)'
  <2>1. CASE recommendation'[t] = recommendation[t]
    BY <2>1, EvidenceStays DEF StatusEvidence
  <2>2. CASE recommendation'[t] # recommendation[t]
    <3>1. PICK h \in Handlers : ApplyRecommendation(h)
      BY <2>2 DEF Next, Create, TimePasses, CreateTicket, GrowOld, Consume, Send,
         Reconcile, vars, storeVars, ConsumerStep, Claim, SkipDuplicate,
         IgnoreRecommendation, MonolithSettles, MonolithFails, Settle,
         LockForCancel, CommitCancellation, ApplyCancellation, FailHandler,
         GatewayStep, Take, ProviderRefuses, ProviderAccepts, RecordAck,
         FailSender, ReconcilerStep, FindStuck, StartCancel, FinishCancel, AbortTick
    <3> DEFINE f == cframe[h]
    <3>2. /\ recommendation' = [recommendation EXCEPT ![frames[f].ticket] = frames[f].action]
          /\ f \in inbox' /\ f \in DOMAIN frames
          /\ frames[f].type = "RECOMMENDATION"
      BY <1>b, <3>1 DEF ApplyRecommendation, CommitClaim, TicketOf, ActionOf, At
    <3> HIDE DEF f
    <3>3. t = frames[f].ticket /\ recommendation'[t] = frames[f].action
      BY <1>a, <2>2, <3>2 DEF TypeInv, TypeOK, StoreTypeOK
    <3>4. QED
      BY <1>a, <3>2, <3>3, InGroundsNext
  <2>3. QED
    BY <2>1, <2>2
<1>2. CASE status'[t] = status[t]
  <2>1. ASSUME NEW e \in accepted, Decides(e, t, status[t])
        PROVE  (\E d \in accepted : Decides(d, t, status[t]))'
    BY <1>2, <1>a, <2>1, EvidenceStays DEF Decides
  <2>2. QED
    BY <1>1, <1>2, <1>a, <2>1 DEF StatusEvidence, IndicesExist
<1>3. CASE status'[t] # status[t]
  <2>1. RowMove(t)
    BY <1>3, <1>a, OnlyRowMoves
  <2>2. ASSUME status'[t] \in {"confirmed", "declined"}
        PROVE  (\E e \in accepted : Decides(e, t, status[t]))'
    <3>1. PICK g \in Senders :
              /\ RecordAck(g)
              /\ EventOf(g).ticket = t
              /\ status'[t] = AckTarget(EventOf(g).type)
      BY <2>1, <2>2 DEF RowMove, Recommended
    <3>2. PICK e \in accepted : e = gevent[g]
      BY <3>1 DEF RecordAck, DecisionInv, History, EvidenceInv, AcksInHand
    <3>3. /\ e \in DOMAIN outbox /\ outbox[e].ticket = t
          /\ outbox[e].type \in AckTypes /\ status'[t] = Decided(outbox[e].type)
      BY <1>a, <2>2, <3>1, <3>2, IndexBounds
         DEF RecordAck, EventOf, AckTarget, Event, OutboundTypes, AckTypes,
             DecisionInv, History, EvidenceInv, AcksInHand, IndicesExist
    <3> DEFINE f == outbox[e].cause
    <3>4. /\ f \in inbox /\ f # 0 /\ f \in DOMAIN frames
          /\ frames[f].type = "RECOMMENDATION"
          /\ frames[f].ticket = t /\ AckType(frames[f].action) = outbox[e].type
      BY <1>a, <3>3, IndexBounds, MaxFramesIsNat
         DEF DecisionInv, History, EvidenceInv, AnswersGrounded, IndicesExist
    <3>5. settled[f] = 1
      BY <3>3, <3>4 DEF DecisionInv, History, FrameInv, OneAnswerPerFrame
    <3>6. frames[f].action = "accept" <=> status'[t] = "confirmed"
      BY <3>3, <3>4 DEF AckType, Decided
    <3>7. PICK st : st = status'[t]
      OBVIOUS
    <3>8. Decides(e, t, st)
      BY <3>3, <3>4, <3>5, <3>6, <3>7 DEF Decides
    <3>9. Decides(e, t, st)'
      BY <3>8, EvidenceStays
    <3>10. QED
      BY <1>a, <3>7, <3>9 DEF Decides
  <2>3. ASSUME status'[t] = "cancelled"
        PROVE  \E f \in inbox' :
                   /\ frames'[f].ticket = t
                   /\ frames'[f].type = "CANCELLATION_APPLIED"
    <3>1. PICK h \in Handlers :
              /\ cpc[h] # "idle" /\ TicketOf(h) = t
              /\ ApplyCancellation(h) /\ CommitClaim(cframe[h])
      BY <2>1, <2>3 DEF RowMove, Recommended, AckTarget, Decided
    <3>2. QED
      BY <1>a, <1>b, <3>1 DEF ApplyCancellation, CommitClaim, TicketOf
  <2>4. QED
    BY <1>1, <2>2, <2>3
<1>4. QED
  BY <1>2, <1>3

\* The status column has its evidence in the tables, over all behaviours.
LEMMA EvidenceHolds == Spec => [](DecisionInv /\ StatusEvidence)
BY InitDecisionInv, NextDecisionInv, InitStatusEvidence, NextStatusEvidence, PTL DEF Spec

\* CONFIRMED and DECLINED always go back, over an acknowledged answer, to a
\* recommendation of that action that was claimed once and settled once.
THEOREM DecisionsAreGrounded == Spec => []DecisionGrounded
<1>1. DecisionInv /\ StatusEvidence => DecisionGrounded
  BY DEF StatusEvidence, DecisionGrounded, Decides, DecisionInv, History,
     EvidenceInv, IndicesExist
<1>2. QED
  BY <1>1, EvidenceHolds, PTL

\* CANCELLED always goes back, over a claimed CANCELLATION_APPLIED, to a
\* request of ours that the provider acknowledged.
THEOREM CancellationsAreGrounded == Spec => []CancellationGrounded
<1>1. DecisionInv /\ StatusEvidence => CancellationGrounded
  BY DEF StatusEvidence, CancellationGrounded, DecisionInv, History,
     EvidenceInv, IndicesExist, FramesGrounded
<1>2. QED
  BY <1>1, EvidenceHolds, PTL

\* Once a recommendation is stored no bookkeeping of the gateway makes the
\* ticket NEW or SENT_TO_PROVIDER again.
THEOREM NeverEarlyAgain == Spec => []NoEarlyRegress
<1>1. DecisionInv /\ StatusEvidence => NoEarlyRegress
  BY DEF StatusEvidence, NoEarlyRegress, DecisionInv, EarlyIsGroundless, PerTicket!Early
<1>2. QED
  BY <1>1, EvidenceHolds, PTL

\* No other commit than the one that changes the ticket makes a claim durable:
\* a frame that is in the inbox has had its effect.
THEOREM ClaimsCommitWithEffects == Spec => ClaimCommitsWithEffect
<1> DEFINE Effect(f) ==
        LET t == frames[f].ticket IN
        IF frames[f].type = "RECOMMENDATION"
          THEN /\ status'[t] = Recommended(frames[f].action)
               /\ recommendation'[t] = frames[f].action
          ELSE status'[t] = "cancelled"
<1>1. ASSUME DecisionInv, [Next]_vars, NEW f \in inbox' \ inbox
      PROVE  Effect(f)
  <2>1. PICK h \in Handlers : ConsumerStep(h) /\ inbox' # inbox
    BY <1>1 DEF Next, Create, TimePasses, Consume, Send, Reconcile, consumerVars, vars
  <2>2. /\ ApplyRecommendation(h) \/ ApplyCancellation(h)
        /\ inbox' = inbox \cup {cframe[h]}
        /\ cpc[h] = "claimed"
    BY <2>1 DEF ConsumerStep, Claim, InsertClaim, SkipDuplicate, consumerVars,
       IgnoreRecommendation, ApplyRecommendation, CommitClaim, MonolithSettles,
       MonolithFails, Settle, LockForCancel, CommitCancellation,
       ApplyCancellation, FailHandler, At
  <2>3. f = cframe[h]
    BY <1>1, <2>2
  <2>4. PICK t \in Tickets : t = TicketOf(h)
    BY <1>1, <2>2, IndexBounds
       DEF DecisionInv, History, TypeInv, WorkExists, TicketOf, Frame
  <2>5. /\ Loaded(h, t) = status[t]
        /\ status \in [Tickets -> TicketStatus]
        /\ recommendation \in [Tickets -> RecommendationAction \cup {NoAction}]
    BY <1>1, <2>2, <2>4 DEF DecisionInv, History, EvidenceInv, HandlersRemember,
       Loaded, TypeInv, TypeOK, StoreTypeOK
  <2>6. CASE ApplyRecommendation(h)
    <3>1. /\ ChangeStatus(h, t, Recommended(ActionOf(h)))
          /\ recommendation' = [recommendation EXCEPT ![t] = ActionOf(h)]
          /\ frames[f].type = "RECOMMENDATION"
      BY <2>3, <2>4, <2>6 DEF ApplyRecommendation
    <3>2. status'[t] = Recommended(ActionOf(h)) /\ recommendation'[t] = ActionOf(h)
      BY <2>5, <3>1 DEF ChangeStatus
    <3>3. QED
      BY <2>3, <2>4, <3>1, <3>2 DEF TicketOf, ActionOf
  <2>7. CASE ApplyCancellation(h)
    <3>1. frames[f].type # "RECOMMENDATION"
      BY <2>3, <2>7 DEF ApplyCancellation
    <3>2. Loaded(h, t) = "cancelled" \/ ChangeStatus(h, t, "cancelled")
      BY <2>4, <2>7 DEF ApplyCancellation
    <3>3. inbox' # inbox => Loaded(h, t) # "cancelled"
      BY <2>4, <2>7 DEF ApplyCancellation
    <3>4. status'[t] = "cancelled"
      BY <2>1, <2>5, <3>2, <3>3 DEF ChangeStatus
    <3>5. QED
      BY <2>3, <2>4, <3>1, <3>4 DEF TicketOf
  <2>8. QED
    BY <2>2, <2>6, <2>7
<1>2. DecisionInv /\ [Next]_vars => [\A f \in inbox' \ inbox : Effect(f)]_vars
  BY <1>1
<1>3. QED
  BY <1>2, InitDecisionInv, NextDecisionInv, PTL DEF Spec, ClaimCommitsWithEffect
=============================================================================
