--------------------------- MODULE ProviderChannel ---------------------------
(***************************************************************************)
(* The risk provider at the far end of the websocket, as MockProviderClient*)
(* simulates it: what it accepts and the frames it answers with.           *)
(***************************************************************************)
EXTENDS TicketStore

CONSTANT MaxFrames  \* bound on the frames the provider sends

ASSUME MaxFramesIsNat == MaxFrames \in Nat

VARIABLES
    frames,    \* frames the provider has sent, by message_id (their index)
    accepted   \* indices of the outbox events the provider has acknowledged

providerVars == <<frames, accepted>>

Frame ==
    [type : HANDLED_TYPES, ticket : Tickets,
     action : RecommendationAction \cup {NoAction}]

ProviderInit ==
    /\ frames = <<>>
    /\ accepted = {}

\* The types of the frames and of the acknowledgements.
ProviderTypeOK ==
    /\ frames \in Seq(Frame)
    /\ accepted \subseteq Nat

-----------------------------------------------------------------------------
\* _schedule_response: the frames that may answer event m.  A TICKET gets a
\* recommendation chosen at random on every send.
Answers(m) ==
    CASE m.type = "TICKET" ->
            [type : {"RECOMMENDATION"}, ticket : {m.ticket},
             action : RecommendationAction]
      [] m.type = "REQUEST_CANCELLATION" ->
            [type : {"CANCELLATION_APPLIED"}, ticket : {m.ticket},
             action : {NoAction}]
      [] OTHER -> {}

\* send returns an "ok" AckPayload for event number e.  The answer gets a
\* message_id of its own even when e was sent before.
Accept(e) ==
    /\ accepted' = accepted \cup {e}
    /\ IF Answers(outbox[e]) = {}
         THEN UNCHANGED frames
         ELSE /\ Len(frames) < MaxFrames
              /\ \E a \in Answers(outbox[e]) : frames' = Append(frames, a)
=============================================================================
