----------------------------- MODULE TicketTypes -----------------------------
(***************************************************************************)
(* The vocabulary of backend/constants.py: ticket statuses, provider       *)
(* message types, recommendations, and the database sessions that the      *)
(* processes of the system open.  No state.                                *)
(***************************************************************************)
EXTENDS Naturals, FiniteSets, Sequences

CONSTANTS
    Tickets,      \* ticket ids (rows of the tickets table)
    Handlers,     \* concurrent invocations of ProviderConsumerWorker._handle
    Senders,      \* concurrent invocations of ProviderGatewayWorker._send_to_provider
    Reconcilers,  \* reconciler processes
    NoSession,    \* owner of a row lock nobody holds
    NoTicket      \* "no current ticket" of an idle reconciler

\* The sessions that take ticket row locks; each belongs to one process.
Sessions == Handlers \cup Senders \cup Reconcilers

ASSUME SessionsAreDistinct ==
    /\ Handlers \cap Senders = {}
    /\ Handlers \cap Reconcilers = {}
    /\ Senders \cap Reconcilers = {}
    /\ NoSession \notin Sessions
    /\ NoTicket \notin Tickets

-----------------------------------------------------------------------------
TERMINAL_TICKET_STATUSES == {"confirmed", "declined", "cancelled", "expired"}

\* "absent" stands for a ticket whose row has not been inserted yet.
TicketStatus ==
    {"absent", "new", "sent_to_provider", "recommended_confirm",
     "recommended_decline", "settled", "cancellation_requested"}
        \cup TERMINAL_TICKET_STATUSES

RecommendationAction == {"accept", "decline"}
NoAction == "none"

\* Frames that travel through provider.out (events) and provider.in (frames).
OutboundTypes ==
    {"TICKET", "CONFIRM_RECOMMENDATION", "DECLINE_RECOMMENDATION",
     "REQUEST_CANCELLATION"}
HANDLED_TYPES == {"RECOMMENDATION", "CANCELLATION_APPLIED"}

-----------------------------------------------------------------------------
\* (variant: the action itself goes into the status column)
StoresTheAction(a) == a

\* The status apply_recommendation gives a ticket.
Recommended(a) ==
    IF a = "accept" THEN "recommended_confirm" ELSE "recommended_decline"

\* (variant: a decline is answered with a confirmation)
AlwaysConfirm(a) == "CONFIRM_RECOMMENDATION"

\* The type of the answer _build_ack_message puts in the outbox.
AckType(a) ==
    IF a = "accept" THEN "CONFIRM_RECOMMENDATION" ELSE "DECLINE_RECOMMENDATION"

\* The status a delivered answer gives the ticket.
Decided(type) ==
    IF type = "CONFIRM_RECOMMENDATION" THEN "confirmed" ELSE "declined"
=============================================================================
