-------------------------- MODULE DecisionContract --------------------------
(***************************************************************************)
(* What the services promise about the status of a ticket: the state       *)
(* machine that the code really has.  It differs from the drawing in the   *)
(* README in the exits from terminal statuses and from                     *)
(* CANCELLATION_REQUESTED, which stale objects and late frames take.       *)
(***************************************************************************)
EXTENDS TicketTypes

VARIABLES
    status,
    grounds  \* recommendations stored so far, and "cancel" once we have asked

vars == <<status, grounds>>

Early == {"absent", "new", "sent_to_provider"}

Init ==
    /\ status = [t \in Tickets |-> "absent"]
    /\ grounds = [t \in Tickets |-> {}]

Move(t, to) == status' = [status EXCEPT ![t] = to]
Ground(t, g) == grounds' = [grounds EXCEPT ![t] = @ \cup {g}]

Live(t) == status[t] \notin TERMINAL_TICKET_STATUSES \cup {"absent"}

\* Only forwards: absent, new, sent.
Begin(t) ==
    /\ \/ status[t] = "absent" /\ Move(t, "new")
       \/ status[t] = "new" /\ Move(t, "sent_to_provider")
    /\ UNCHANGED grounds

\* A recommendation never reopens a terminal ticket.
Recommend(t, a) ==
    /\ Live(t)
    /\ Move(t, Recommended(a))
    /\ Ground(t, a)

\* A late settlement may come from any status a recommended ticket has.
SettleOn(t, a) ==
    /\ status[t] \notin Early
    /\ a \in grounds[t]
    /\ Move(t, "settled")
    /\ UNCHANGED grounds

\* Only a live ticket is confirmed or declined.
Decide(t, a) ==
    /\ Live(t) /\ status[t] \notin Early
    /\ a \in grounds[t]
    /\ Move(t, Decided(AckType(a)))
    /\ UNCHANGED grounds

RequestCancel(t) ==
    /\ status[t] # "absent"
    /\ Move(t, "cancellation_requested")
    /\ Ground(t, "cancel")

Cancel(t) ==
    /\ status[t] \notin Early
    /\ "cancel" \in grounds[t]
    /\ Move(t, "cancelled")
    /\ UNCHANGED grounds

Next ==
    \E t \in Tickets :
        \/ Begin(t) \/ RequestCancel(t) \/ Cancel(t)
        \/ \E a \in RecommendationAction :
               Recommend(t, a) \/ SettleOn(t, a) \/ Decide(t, a)

Spec == Init /\ [][Next]_vars
=============================================================================
