-------------------------- MODULE ProviderConsumer --------------------------
(***************************************************************************)
(* ProviderConsumerWorker._handle with the TicketService methods it calls. *)
(*                                                                         *)
(* A handler runs these steps, with other processes in between:            *)
(*                                                                         *)
(*   idle --Claim--> claimed --ApplyRecommendation--> calling              *)
(*   calling --MonolithSettles--> settling --Settle--> idle                *)
(*   calling --MonolithFails--> cancelling --LockForCancel-->              *)
(*           cancel_calling --CommitCancellation--> idle                   *)
(*   claimed --ApplyCancellation--> idle                                   *)
(*                                                                         *)
(* and FailHandler from any of them.  A lock taken and released within one *)
(* step, with no call in between, is the guard Lockable of that step.      *)
(***************************************************************************)
EXTENDS ProviderChannel

VARIABLES
    inbox,     \* processed_provider_messages: frames whose claim is committed
    settled,   \* process_ticket(action) calls that succeeded, per frame
    cpc,       \* where each handler is
    cframe     \* frame each handler works on, 0 when idle

consumerVars == <<inbox, settled, cpc, cframe>>

HandlerStates ==
    {"idle", "claimed", "calling", "settling", "cancelling", "cancel_calling"}

ConsumerInit ==
    /\ inbox = {}
    /\ settled = [f \in 1..MaxFrames |-> 0]
    /\ cpc = [h \in Handlers |-> "idle"]
    /\ cframe = [h \in Handlers |-> 0]

\* The types of the inbox and of the handlers.
ConsumerTypeOK ==
    /\ inbox \subseteq 1..MaxFrames
    /\ settled \in [1..MaxFrames -> Nat]
    /\ cpc \in [Handlers -> HandlerStates]
    /\ cframe \in [Handlers -> 0..MaxFrames]

-----------------------------------------------------------------------------
TicketOf(h) == frames[cframe[h]].ticket
ActionOf(h) == frames[cframe[h]].action

At(h, pc) == cpc[h] = pc
GoTo(h, pc) ==
    /\ cpc' = [cpc EXCEPT ![h] = pc]
    /\ cframe' = cframe

\* _handle returns: session_scope closes the session and its transaction.
Finish(h) ==
    /\ cpc' = [cpc EXCEPT ![h] = "idle"]
    /\ cframe' = [cframe EXCEPT ![h] = 0]
    /\ ReleaseLocks(h)
    /\ Forget(h)

-----------------------------------------------------------------------------
\* The inbox.
\* (variant: the inbox is not consulted)
NeverClaimed(f) == FALSE

\* try_claim finds a committed row for the message_id.
AlreadyClaimed(f) == f \in inbox

\* An uncommitted INSERT of the same message_id makes the second one wait.
ClaimPending(f) == \E h \in Handlers : cframe[h] = f /\ cpc[h] = "claimed"

\* (variant: the claim is lost)
ForgetsClaim(f) == UNCHANGED inbox

\* The first commit() of the service makes the claim durable.
CommitClaim(f) == inbox' = inbox \cup {f}

\* (variant: the claim has a commit of its own)
ClaimCommitsEarly(f) == inbox' = inbox \cup {f}

\* try_claim itself does not commit.
InsertClaim(f) == UNCHANGED inbox

-----------------------------------------------------------------------------
\* A frame is delivered and try_claim inserts it.
Claim(h, f) ==
    /\ At(h, "idle")
    /\ f \in DOMAIN frames
    /\ ~AlreadyClaimed(f)
    /\ ~ClaimPending(f)
    /\ cpc' = [cpc EXCEPT ![h] = "claimed"]
    /\ cframe' = [cframe EXCEPT ![h] = f]
    /\ InsertClaim(f)
    /\ UNCHANGED <<settled, storeVars>>

\* A redelivered frame that was claimed before is acknowledged and skipped.
SkipDuplicate(h, f) ==
    /\ At(h, "idle")
    /\ f \in DOMAIN frames
    /\ AlreadyClaimed(f)
    /\ UNCHANGED <<consumerVars, storeVars>>

\* apply_recommendation on a terminal ticket returns before any commit: the
\* claim is rolled back with the session.
IgnoreRecommendation(h) ==
    LET t == TicketOf(h) IN
    /\ At(h, "claimed")
    /\ frames[cframe[h]].type = "RECOMMENDATION"
    /\ Lockable(h, t)
    /\ Terminal(Loaded(h, t))
    /\ Finish(h)
    /\ UNCHANGED <<inbox, settled, status, recommendation, aged, outbox>>

\* apply_recommendation up to its first commit.
ApplyRecommendation(h) ==
    LET t == TicketOf(h) IN
    /\ At(h, "claimed")
    /\ frames[cframe[h]].type = "RECOMMENDATION"
    /\ Lockable(h, t)
    /\ ~Terminal(Loaded(h, t))
    /\ ChangeStatus(h, t, Recommended(ActionOf(h)))
    /\ recommendation' = [recommendation EXCEPT ![t] = ActionOf(h)]
    /\ Touch(t)
    /\ seen' = [seen EXCEPT ![h][t] = Recommended(ActionOf(h))]
    /\ CommitClaim(cframe[h])
    /\ GoTo(h, "calling")
    /\ UNCHANGED <<settled, holder, outbox>>

\* process_ticket(ticket, action) returns; no row lock is held meanwhile.
MonolithSettles(h) ==
    /\ At(h, "calling")
    /\ settled' = [settled EXCEPT ![cframe[h]] = @ + 1]
    /\ GoTo(h, "settling")
    /\ UNCHANGED <<inbox, storeVars>>

\* process_ticket raises MonolithError.
MonolithFails(h) ==
    /\ At(h, "calling")
    /\ GoTo(h, "cancelling")
    /\ UNCHANGED <<inbox, settled, storeVars>>

\* The second half of apply_recommendation: SETTLED and the answer to the
\* provider, in one commit.  The terminal check reads the loaded object.
Settle(h) ==
    LET t == TicketOf(h) IN
    /\ At(h, "settling")
    /\ Lockable(h, t)
    /\ IF Terminal(Loaded(h, t))
         THEN UNCHANGED <<status, aged, outbox>>
         ELSE /\ ChangeStatus(h, t, "settled")
              /\ Touch(t)
              /\ Emit(AckType(ActionOf(h)), t, cframe[h])
    /\ Finish(h)
    /\ UNCHANGED <<inbox, settled, recommendation>>

\* request_cancellation takes the row lock and keeps it during its call of
\* the monolith.
LockForCancel(h) ==
    LET t == TicketOf(h) IN
    /\ At(h, "cancelling")
    /\ Lockable(h, t)
    /\ holder' = [holder EXCEPT ![t] = h]
    /\ GoTo(h, "cancel_calling")
    /\ UNCHANGED <<inbox, settled, status, recommendation, aged, seen, outbox>>

\* The monolith answered, or failed and the error was swallowed.
CommitCancellation(h) ==
    LET t == TicketOf(h) IN
    /\ At(h, "cancel_calling")
    /\ ChangeStatus(h, t, "cancellation_requested")
    /\ Touch(t)
    /\ Emit("REQUEST_CANCELLATION", t, cframe[h])
    /\ Finish(h)
    /\ UNCHANGED <<inbox, settled, recommendation>>

\* mark_cancellation_applied: no commit when the ticket is cancelled already.
ApplyCancellation(h) ==
    LET t == TicketOf(h) IN
    /\ At(h, "claimed")
    /\ frames[cframe[h]].type = "CANCELLATION_APPLIED"
    /\ Lockable(h, t)
    /\ IF Loaded(h, t) = "cancelled"
         THEN UNCHANGED <<inbox, status, aged>>
         ELSE /\ ChangeStatus(h, t, "cancelled")
              /\ Touch(t)
              /\ CommitClaim(cframe[h])
    /\ Finish(h)
    /\ UNCHANGED <<settled, recommendation, outbox>>

\* A database error, a crash or a kill: the open transaction is rolled back,
\* what was committed stays, the frame will be redelivered.
FailHandler(h) ==
    /\ ~At(h, "idle")
    /\ Finish(h)
    /\ UNCHANGED <<inbox, settled, status, recommendation, aged, outbox>>

ConsumerStep(h) ==
    \/ \E f \in DOMAIN frames : Claim(h, f) \/ SkipDuplicate(h, f)
    \/ IgnoreRecommendation(h)
    \/ ApplyRecommendation(h)
    \/ MonolithSettles(h)
    \/ MonolithFails(h)
    \/ Settle(h)
    \/ LockForCancel(h)
    \/ CommitCancellation(h)
    \/ ApplyCancellation(h)
    \/ FailHandler(h)
=============================================================================
