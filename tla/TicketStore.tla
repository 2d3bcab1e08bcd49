----------------------------- MODULE TicketStore -----------------------------
(***************************************************************************)
(* The tickets and outbox tables of PostgreSQL, and what a SQLAlchemy      *)
(* session adds to them: row locks (SELECT ... FOR UPDATE) and the         *)
(* identity map.                                                           *)
(*                                                                         *)
(* The sessionmaker sets expire_on_commit=False, and a FOR UPDATE select   *)
(* does not refresh an object the session has already loaded.  So the      *)
(* first load of a row in a session fixes the status that session sees     *)
(* until its own next write: seen[s][t] is that status, and Loaded decides *)
(* between it and the row.                                                 *)
(***************************************************************************)
EXTENDS TicketTypes

CONSTANT MaxEvents  \* bound on the rows of the outbox table

ASSUME MaxEventsIsNat == MaxEvents \in Nat

VARIABLES
    status,          \* tickets.status, "absent" before the insert
    recommendation,  \* tickets.provider_recommendation
    aged,            \* tickets.updated_at is older than the reconciler's threshold
    holder,          \* session that holds the row lock
    seen,            \* identity map of each session: status of a loaded ticket
    outbox           \* outbox table, in insertion order

storeVars == <<status, recommendation, aged, holder, seen, outbox>>

NotLoaded == "not_loaded"

\* An outbox row.  cause is the index of the provider frame that made the
\* consumer write it, 0 for the API and the reconciler.
Event == [type : OutboundTypes, ticket : Tickets, cause : Nat]

StoreInit ==
    /\ status = [t \in Tickets |-> "absent"]
    /\ recommendation = [t \in Tickets |-> NoAction]
    /\ aged = [t \in Tickets |-> FALSE]
    /\ holder = [t \in Tickets |-> NoSession]
    /\ seen = [s \in Sessions |-> [t \in Tickets |-> NotLoaded]]
    /\ outbox = <<>>

\* The types of the columns, of the locks and of the identity maps.
StoreTypeOK ==
    /\ status \in [Tickets -> TicketStatus]
    /\ recommendation \in [Tickets -> RecommendationAction \cup {NoAction}]
    /\ aged \in [Tickets -> BOOLEAN]
    /\ holder \in [Tickets -> Sessions \cup {NoSession}]
    /\ seen \in [Sessions -> [Tickets -> TicketStatus \cup {NotLoaded}]]
    /\ outbox \in Seq(Event)

Terminal(st) == st \in TERMINAL_TICKET_STATUSES

-----------------------------------------------------------------------------
\* Row locks and the identity map.

\* (variant: a plain SELECT instead of FOR UPDATE)
ReadsWithoutLock(s, t) == TRUE

\* get_by_id_for_update returns without waiting for another transaction.
Lockable(s, t) == holder[t] \in {NoSession, s}

\* The status the object returned by get_by_id_for_update carries.
Loaded(s, t) == IF seen[s][t] = NotLoaded THEN status[t] ELSE seen[s][t]

\* (variant: the transaction is left open)
KeepsLocks(s) == UNCHANGED holder

\* End of the transaction, by commit or by rollback.
ReleaseLocks(s) ==
    holder' = [t \in Tickets |-> IF holder[t] = s THEN NoSession ELSE holder[t]]

\* End of the session: the identity map goes with it.
Forget(s) == seen' = [seen EXCEPT ![s] = [t \in Tickets |-> NotLoaded]]

-----------------------------------------------------------------------------
\* Writes.  Each is committed with the action it is part of.

\* _change_status: an UPDATE only when the loaded object has another status.
ChangeStatus(s, t, to) ==
    status' = IF Loaded(s, t) = to THEN status ELSE [status EXCEPT ![t] = to]

\* The UPDATE of any column sets updated_at (onupdate).
Touch(t) == aged' = [aged EXCEPT ![t] = FALSE]

\* (variant: the event is not added)
EmitsNothing(type, t, cause) == UNCHANGED outbox

\* OutboxRepository.add
Emit(type, t, cause) ==
    /\ Len(outbox) < MaxEvents
    /\ outbox' = Append(outbox, [type |-> type, ticket |-> t, cause |-> cause])

-----------------------------------------------------------------------------
\* create_ticket: the row and its TICKET event, in one commit.  Requests with
\* the same idempotency key are the subject of TicketCreation.
CreateTicket(t) ==
    /\ status[t] = "absent"
    /\ status' = [status EXCEPT ![t] = "new"]
    /\ Emit("TICKET", t, 0)
    /\ UNCHANGED <<recommendation, aged, holder, seen>>

\* stuck_after_sec pass without an UPDATE of the row.  A terminal row is never
\* selected by its age, so only the others grow old.
GrowOld(t) ==
    /\ status[t] # "absent"
    /\ ~Terminal(status[t])
    /\ ~aged[t]
    /\ aged' = [aged EXCEPT ![t] = TRUE]
    /\ UNCHANGED <<status, recommendation, holder, seen, outbox>>
=============================================================================
